---- MODULE Spec2Model ----
(***************************************************************************)
(* A model of the blog generation pipeline: the topic generator            *)
(* (scripts/enhanced-topic-generator.ts), the index rebuild                 *)
(* (scripts/rebuild-index.js), the content / meta-description generator     *)
(* (src/utils/aiBlogGenerator.ts), the image generator                      *)
(* (src/utils/ideogramApi.ts) and the daily batch driver                    *)
(* (scripts/generate-inline-blog-images.ts).                                *)
(*                                                                         *)
(* A string is a sequence of one-character strings, so that the regular    *)
(* expression rewrites of the code are computed character by character.    *)
(***************************************************************************)
EXTENDS Integers, Sequences, FiniteSets, TLC

\* ------------------------------------------------------------------------
\* Bounds of the model
\* ------------------------------------------------------------------------
MaxTitleLen == 3
MaxRespLen == 3

\* ------------------------------------------------------------------------
\* Strings
\* ------------------------------------------------------------------------
Upper == <<"A", "B", "C", "D", "E", "F", "G", "H", "I", "J", "K", "L", "M",
           "N", "O", "P", "Q", "R", "S", "T", "U", "V", "W", "X", "Y", "Z">>
Lower == <<"a", "b", "c", "d", "e", "f", "g", "h", "i", "j", "k", "l", "m",
           "n", "o", "p", "q", "r", "s", "t", "u", "v", "w", "x", "y", "z">>
LowerChars == {Lower[i] : i \in 1..Len(Lower)}
DigitChars == {"0", "1", "2", "3", "4", "5", "6", "7", "8", "9"}
\* the newline character, written as a token
Newline == "NEWLINE"
\* the class \s of the regular expressions and of trim
SpaceChars == {" ", Newline}
Hyphen == "-"
Backslash == "\\"
\* the double quote character, written as a token
DoubleQuote == "DQUOTE"
\* the class of line 181 of generateAISlug: backslash, double quote, single
\* quote, backtick (written as a token)
QuoteChars == {Backslash, DoubleQuote, "'", "BACKTICK"}

RECURSIVE StringsUpTo(_, _)
StringsUpTo(chars, n) ==
    IF n = 0 THEN {<<>>}
    ELSE LET shorter == StringsUpTo(chars, n - 1)
         IN  shorter \cup {Append(s, c) : s \in shorter, c \in chars}

toLowerCase(s) ==
    [i \in 1..Len(s) |->
        IF \E k \in 1..Len(Upper) : Upper[k] = s[i]
        THEN Lower[CHOOSE k \in 1..Len(Upper) : Upper[k] = s[i]]
        ELSE s[i]]

Min(S) == CHOOSE x \in S : \A y \in S : x <= y
Max(S) == CHOOSE x \in S : \A y \in S : x >= y

\* the characters of s at the positions, in increasing order, that satisfy keep
Positions(s, keep(_)) == SelectSeq([i \in 1..Len(s) |-> i], keep)

\* s.replace(/[^keep]/g, '')
KeepOnly(s, keep) == SelectSeq(s, LAMBDA c : c \in keep)

\* s.replace(/X+/g, rep) for a character class X: every maximal run of
\* characters of the class becomes one rep
ReplaceRuns(s, class, rep) ==
    LET kept == Positions(s, LAMBDA i : s[i] \notin class \/ i = 1 \/ s[i - 1] \notin class)
    IN  [k \in 1..Len(kept) |-> IF s[kept[k]] \in class THEN rep ELSE s[kept[k]]]

\* s.replace(/^X|X$/g, '') for a character class X: one leading and one
\* trailing character of the class are removed
StripEnds(s, class) ==
    LET t == IF Len(s) > 0 /\ s[1] \in class THEN Tail(s) ELSE s
    IN  IF Len(t) > 0 /\ t[Len(t)] \in class THEN SubSeq(t, 1, Len(t) - 1) ELSE t

trim(s) ==
    LET solid == {i \in 1..Len(s) : s[i] \notin SpaceChars}
    IN  IF solid = {} THEN <<>> ELSE SubSeq(s, Min(solid), Max(solid))

includes(s, c) == \E i \in 1..Len(s) : s[i] = c

\* slug.replace(/\\n+/g, '-'): a backslash followed by one or more "n"
\* becomes one hyphen
ReplaceBackslashN(s) ==
    LET startsMatch(i) == s[i] = Backslash /\ i < Len(s) /\ s[i + 1] = "n"
        inMatch(i) == /\ s[i] = "n"
                      /\ \E j \in 1..(i - 1) :
                            /\ s[j] = Backslash
                            /\ \A m \in (j + 1)..i : s[m] = "n"
        kept == Positions(s, LAMBDA i : ~inMatch(i))
    IN  [k \in 1..Len(kept) |-> IF startsMatch(kept[k]) THEN Hyphen ELSE s[kept[k]]]

\* ------------------------------------------------------------------------
\* enhanced-topic-generator.ts: generateSlug, generateAISlug
\* ------------------------------------------------------------------------
SlugChars == LowerChars \cup DigitChars \cup {Hyphen}

generateSlug(title) ==
    StripEnds(
        ReplaceRuns(
            ReplaceRuns(
                KeepOnly(toLowerCase(title), SlugChars \cup SpaceChars),
                SpaceChars, Hyphen),
            {Hyphen}, Hyphen),
        {Hyphen})

\* the clean-up of the AI's answer, lines 178-184
cleanAISlug(text) ==
    StripEnds(
        ReplaceRuns(
            ReplaceBackslashN(StripEnds(trim(text), QuoteChars)),
            {Hyphen}, Hyphen),
        {Hyphen})

MinSlugLen == 3

\* the validation of line 187
isInvalidAISlug(slug) ==
    Len(slug) = 0 \/ Len(slug) < MinSlugLen \/ ~includes(slug, Hyphen)

\* The outcome of the slug request: no API key, a non-OK response, a thrown
\* error (network failure, malformed body), or an answer text.
NoApiKey == [kind |-> "no-api-key"]
NotOk == [kind |-> "not-ok"]
Throws == [kind |-> "throws"]
Answer(text) == [kind |-> "text", text |-> text]

generateAISlug_noFallback(title, outcome) ==
    IF outcome.kind # "text" THEN <<>> ELSE cleanAISlug(outcome.text)

generateAISlug(title, outcome) ==
    IF outcome.kind # "text" THEN generateSlug(title)
    ELSE LET slug == cleanAISlug(outcome.text)
         IN  IF isInvalidAISlug(slug) THEN generateSlug(title) ELSE slug

\* ------------------------------------------------------------------------
\* More string helpers
\* ------------------------------------------------------------------------
Range(seq) == {seq[i] : i \in 1..Len(seq)}

RECURSIVE Join(_, _)
Join(strs, sep) ==
    IF Len(strs) = 0 THEN <<>>
    ELSE IF Len(strs) = 1 THEN strs[1]
    ELSE strs[1] \o sep \o Join(Tail(strs), sep)

\* the first index >= i of s whose character is not in class (past the end
\* of s if there is none)
SkipRun(s, i, class) ==
    LET stops == {j \in i..Len(s) : s[j] \notin class}
    IN  IF stops = {} THEN IF i > Len(s) THEN i ELSE Len(s) + 1 ELSE Min(stops)

\* text.replace(/^\s*\d+[\.\:\)]\s*/g, '')
removeLeadingNumber(s) ==
    LET i == SkipRun(s, 1, SpaceChars)
        j == SkipRun(s, i, DigitChars)
    IN  IF j > i /\ j <= Len(s) /\ s[j] \in {".", ":", ")"}
        THEN SubSeq(s, SkipRun(s, j + 1, SpaceChars), Len(s))
        ELSE s

\* text.replace(/\s+\d+[\.\:\)]\s+/g, ' - '): the text is scanned from the
\* left, one run of spaces at a time
RECURSIVE replaceInnerNumbers(_)
replaceInnerNumbers(s) ==
    LET spaces == {p \in 1..Len(s) : s[p] \in SpaceChars}
    IN  IF spaces = {} THEN s
        ELSE LET b == Min(spaces)
                 i == SkipRun(s, b, SpaceChars)
                 j == SkipRun(s, i, DigitChars)
                 k == SkipRun(s, j + 1, SpaceChars)
             IN  IF j > i /\ j <= Len(s) /\ s[j] \in {".", ":", ")"} /\ k > j + 1
                 THEN SubSeq(s, 1, b - 1) \o <<" ", Hyphen, " ">>
                      \o replaceInnerNumbers(SubSeq(s, k, Len(s)))
                 ELSE SubSeq(s, 1, i - 1) \o replaceInnerNumbers(SubSeq(s, i, Len(s)))

\* ideogramApi.ts cleanTextFormatting; the same two rewrites are applied to
\* the title by generateAITitle and again by generateBlogTopic
cleanTextFormatting(text) == replaceInnerNumbers(removeLeadingNumber(text))

\* ------------------------------------------------------------------------
\* aiTextGenerator.ts: generateAITitle
\* ------------------------------------------------------------------------
generateAITitle(keywords, category, outcome) ==
    LET S_Exploring == <<"E", "x", "p", "l", "o", "r", "i", "n", "g", " ">>
        S_and == <<" ", "a", "n", "d", " ">>
        S_in == <<" ", "i", "n", " ">>
        S_Understanding ==
            <<"U", "n", "d", "e", "r", "s", "t", "a", "n", "d", "i", "n", "g", " ">>
        S_in_the_Context_of ==
            <<" ", "i", "n", " ", "t", "h", "e", " ", "C", "o", "n", "t",
              "e", "x", "t", " ", "o", "f", " ">>
        \* the class ["'"'] of the title clean-up
        TitleQuoteChars == {DoubleQuote, "'"}
    IN  IF outcome.kind = "no-api-key"
        THEN S_Exploring \o Join(keywords, S_and) \o S_in \o category
        ELSE IF outcome.kind = "text"
        THEN cleanTextFormatting(StripEnds(trim(outcome.text), TitleQuoteChars))
        ELSE S_Understanding \o Join(keywords, S_and) \o S_in_the_Context_of \o category

\* ------------------------------------------------------------------------
\* enhanced-topic-generator.ts: generateBlogTopic
\* ------------------------------------------------------------------------
categories == <<
    <<"N", "u", "t", "r", "i", "t", "i", "o", "n", " ", "S", "c", "i", "e", "n", "c", "e">>,
    <<"H", "e", "a", "l", "t", "h", " ", "E", "d", "u", "c", "a", "t", "i", "o", "n">>,
    <<"D", "i", "e", "t", " ", "T", "i", "p", "s">>,
    <<"S", "u", "g", "a", "r", " ", "R", "e", "d", "u", "c", "t", "i", "o", "n">>,
    <<"W", "e", "l", "l", "n", "e", "s", "s">>,
    <<"H", "e", "a", "l", "t", "h", " ", "R", "e", "s", "e", "a", "r", "c", "h">>,
    <<"L", "i", "f", "e", "s", "t", "y", "l", "e">>,
    <<"L", "o", "o", "k", "s", "m", "a", "x", "x", "i", "n", "g">> >>

Null == [kind |-> "null"]

\* The keyword lists loaded from public/keywords (baseKeywords) and the
\* trending keyword file read by loadTrendingKeywords.
baseKeywords ==
    << <<"s", "u", "g", "a", "r">>,
       <<"l", "o", "o", "k", "s", "m", "a", "x", "x", "i", "n", "g">> >>

TrendingFixture ==
    LET S_quit_sugar == <<"q", "u", "i", "t", " ", "s", "u", "g", "a", "r">>
        S_keto == <<"k", "e", "t", "o">>
        S_insulin == <<"i", "n", "s", "u", "l", "i", "n">>
    IN  [kind |-> "data",
         trendingKeywords |-> <<S_keto>>,
         risingQueries |-> <<>>,
         keywordIdeas |-> <<S_quit_sugar, S_insulin>>,
         aiSemanticSuggestions |-> <<S_insulin>>]

\* lines 257-269: a long-tail phrase (taken with probability 0.4)
longTailChoices(trendingData, excludeKeywords) ==
    IF trendingData # Null /\ Len(trendingData.keywordIdeas) > 0
    THEN {<<kw>> : kw \in {k \in Range(trendingData.keywordIdeas) :
                              includes(k, " ") /\ k \notin excludeKeywords}}
    ELSE {}

\* lines 273-276
allPrimaryTrending(trendingData, excludeKeywords) ==
    IF trendingData # Null
    THEN {k \in Range(trendingData.trendingKeywords \o trendingData.risingQueries) :
             k \notin excludeKeywords}
    ELSE {}

\* lines 278-299: a trending keyword, paired with probability 0.7 with a
\* semantic suggestion
trendingChoices(trendingData, excludeKeywords) ==
    LET primary == allPrimaryTrending(trendingData, excludeKeywords)
        availableSemantic(k) ==
            {skw \in Range(trendingData.aiSemanticSuggestions) :
                skw \notin excludeKeywords /\ skw # k}
    IN  {<<k>> : k \in primary}
        \cup UNION {{<<k, skw>> : skw \in availableSemantic(k)} : k \in primary}

\* lines 303-319: reached when nothing was selected from the trending data
baseChoices(trendingData, excludeKeywords) ==
    IF allPrimaryTrending(trendingData, excludeKeywords) = {}
    THEN LET availableBase == {k \in Range(baseKeywords) : k \notin excludeKeywords}
             pool == IF availableBase # {} THEN availableBase ELSE Range(baseKeywords)
             second(k) == {b \in Range(baseKeywords) : b \notin excludeKeywords /\ b # k}
         IN  {<<k>> : k \in pool}
             \cup UNION {{<<k, b>> : b \in second(k)} : k \in pool}
    ELSE {}

\* every keyword selection the random draws of lines 249-326 can produce,
\* with its trend score
keywordChoices(trendingData, excludeKeywords) ==
    {[keywords |-> kws, trendScore |-> 75] :
        kws \in longTailChoices(trendingData, excludeKeywords)}
    \cup {[keywords |-> kws, trendScore |-> 70] :
        kws \in trendingChoices(trendingData, excludeKeywords)}
    \cup {[keywords |-> kws, trendScore |-> 0] :
        kws \in baseChoices(trendingData, excludeKeywords)}

categoryChoices_ignoringRecent(recentCategories) == Range(categories)

\* lines 341-355: getRandomItem can return any element of the array it is given
categoryChoices(recentCategories) ==
    LET availableCategories ==
            {cat \in Range(categories) : cat \notin Range(recentCategories)}
    IN  IF availableCategories = {} THEN Range(categories) ELSE availableCategories

\* The topics one call of generateBlogTopic can return, given the outcomes of
\* its two requests to the AI.  tags and metaDescription, which no decision
\* of generateUniqueTopics reads, are left out of the record.
generateBlogTopic(trendingData, excludeKeywords, recentCategories, titleOutcome, slugOutcome) ==
    {LET cleanedTitle ==
             cleanTextFormatting(generateAITitle(sel.keywords, cat, titleOutcome))
     IN  [title |-> cleanedTitle,
          slug |-> generateAISlug(cleanedTitle, slugOutcome),
          category |-> cat,
          trendScore |-> sel.trendScore,
          primaryKeywords |-> sel.keywords] :
        sel \in keywordChoices(trendingData, excludeKeywords),
        cat \in categoryChoices(recentCategories)}

\* ------------------------------------------------------------------------
\* rebuild-index.js: updateIndexFile
\* ------------------------------------------------------------------------
\* A directory entry is [name, isDirectory, parses, data, items]: data is
\* the parsed JSON of a file, items the entries of a directory.  In the JSON
\* of a post an absent string is "", an absent publishDate 0 and a
\* publishDate that is present the time value of a valid timestamp; content
\* is the length of the text.
endsWith(s, suffix) ==
    /\ Len(s) >= Len(suffix)
    /\ SubSeq(s, Len(s) - Len(suffix) + 1, Len(s)) = suffix

DotJson == <<".", "j", "s", "o", "n">>
N_index_json == <<"i", "n", "d", "e", "x">> \o DotJson

\* /^\d{2}-\d{2}-\d{4}$/.test(item)
looksLikeDate(item) ==
    /\ Len(item) = 10
    /\ \A i \in {1, 2, 4, 5, 7, 8, 9, 10} : item[i] \in DigitChars
    /\ item[3] = Hyphen /\ item[6] = Hyphen

\* lines 39-53
readBlogJson(file) ==
    IF file.parses /\ file.data.slug # "" /\ file.data.title # ""
       /\ file.data.publishDate # 0
    THEN file.data
    ELSE Null

\* generate-inline-blog-images.ts lines 627-652, the readBlogJson of the
\* daily script: a missing publishDate gets the default date, the epoch,
\* whose time value is 0
DefaultPublishDate == 0

dailyReadBlogJson(file) ==
    IF file.parses /\ file.data.slug # "" /\ file.data.title # ""
    THEN [file.data EXCEPT !.publishDate = IF @ = 0 THEN DefaultPublishDate ELSE @]
    ELSE Null

PreviewLength == 300

\* blogData.content ? blogData.content.substring(0, 300) + '...' : ''
previewContent(content) ==
    IF content > 0
    THEN (IF content > PreviewLength THEN PreviewLength ELSE content) + 3
    ELSE 0

\* lines 61-77: the post read from a JSON file at the root of the directory
rootPost(item) ==
    LET blogData == readBlogJson(item)
    IN  IF blogData = Null THEN <<>>
        ELSE <<[blogData EXCEPT
                  !.content = previewContent(blogData.content),
                  !.filePath = IF blogData.filePath # <<>> THEN blogData.filePath
                               ELSE item.name]>>

\* lines 85-100: the posts read from the JSON files of a date directory
RECURSIVE datePosts(_, _)
datePosts(item, dateDirItems) ==
    IF dateDirItems = <<>> THEN <<>>
    ELSE LET blogFile == Head(dateDirItems)
             blogData == IF blogFile.isDirectory THEN Null ELSE readBlogJson(blogFile)
         IN  (IF endsWith(blogFile.name, DotJson) /\ blogData # Null
              THEN <<[blogData EXCEPT
                        !.content = previewContent(blogData.content),
                        !.filePath = item.name \o <<"/">> \o blogFile.name]>>
              ELSE <<>>)
             \o datePosts(item, Tail(dateDirItems))

\* lines 56-103
RECURSIVE scanPosts(_)
scanPosts(rootItems) ==
    IF rootItems = <<>> THEN <<>>
    ELSE LET item == Head(rootItems)
         IN  (IF ~item.isDirectory /\ endsWith(item.name, DotJson)
                 /\ item.name # N_index_json
              THEN rootPost(item)
              ELSE IF item.isDirectory /\ looksLikeDate(item.name)
              THEN datePosts(item, item.items)
              ELSE <<>>)
             \o scanPosts(Tail(rootItems))

\* Array.prototype.sort with the comparator (a, b) => b.key - a.key, on
\* records [key, value]: a stable insertion sort.  A negative key stands for
\* a key that is not a number: the difference is then NaN, which sort takes
\* as 0.
comparator(a, b) == IF a.key < 0 \/ b.key < 0 THEN 0 ELSE b.key - a.key

RECURSIVE sortDescending(_)
sortDescending(items) ==
    IF Len(items) <= 1 THEN items
    ELSE LET sorted == sortDescending(SubSeq(items, 1, Len(items) - 1))
             x == items[Len(items)]
             stops == {j \in 1..Len(sorted) : comparator(sorted[j], x) <= 0}
             p == IF stops = {} THEN 0 ELSE Max(stops)
         IN  SubSeq(sorted, 1, p) \o <<x>> \o SubSeq(sorted, p + 1, Len(sorted))

\* posts.sort((a, b) => new Date(b.publishDate).getTime() - new Date(a.publishDate).getTime())
sortByPublishDate(posts) ==
    LET sorted == sortDescending([i \in 1..Len(posts) |->
                                     [key |-> posts[i].publishDate, value |-> posts[i]]])
    IN  [i \in 1..Len(sorted) |-> sorted[i].value]

slice(s, n) == SubSeq(s, 1, IF Len(s) < n THEN Len(s) ELSE n)

RelatedLimit == 4

relatedPostSlugs_noLimit(post, posts) ==
    LET related == SelectSeq(posts, LAMBDA candidate :
            /\ candidate.slug # post.slug
            /\ \/ /\ post.tags.isArray /\ candidate.tags.isArray
                  /\ Range(post.tags.items) \cap Range(candidate.tags.items) # {}
               \/ post.category # "" /\ post.category = candidate.category)
    IN  [i \in 1..Len(related) |-> related[i].slug]

relatedPostSlugs_sameCategoryOnly(post, posts) ==
    LET related == slice(SelectSeq(posts, LAMBDA candidate :
            /\ candidate.slug # post.slug
            /\ post.category # "" /\ post.category = candidate.category), RelatedLimit)
    IN  [i \in 1..Len(related) |-> related[i].slug]

\* lines 110-127
relatedPostSlugs(post, posts) ==
    LET hasSharedTags(candidate) ==
            /\ post.tags.isArray /\ candidate.tags.isArray
            /\ \E tag \in Range(post.tags.items) : tag \in Range(candidate.tags.items)
        isInSameCategory(candidate) ==
            post.category # "" /\ candidate.category # "" /\ post.category = candidate.category
        relatedCandidates ==
            SelectSeq(posts, LAMBDA candidate :
                /\ candidate.slug # post.slug
                /\ (hasSharedTags(candidate) \/ isInSameCategory(candidate)))
        top == slice(sortByPublishDate(relatedCandidates), RelatedLimit)
    IN  [i \in 1..Len(top) |-> top[i].slug]

\* the properties a plain object {} inherits from Object.prototype
InheritedProperties ==
    {"constructor", "toString", "valueOf", "hasOwnProperty", "isPrototypeOf",
     "propertyIsEnumerable", "toLocaleString"}

RECURSIVE tagOccurrences(_)
tagOccurrences(posts) ==
    IF posts = <<>> THEN <<>>
    ELSE (IF Head(posts).tags.isArray THEN Head(posts).tags.items ELSE <<>>)
         \o tagOccurrences(Tail(posts))

\* lines 132-139 and Object.entries(tagFrequency): the tags in the order of
\* their first occurrence, each with its count.  The first read of
\* tagFrequency[tag] for an inherited property yields a function, and
\* (function || 0) + 1 is a string: that count is not a number.  An
\* assignment to tagFrequency['__proto__'] creates no property.
tagFrequency(posts) ==
    LET occ == tagOccurrences(posts)
        first == Positions(occ, LAMBDA i :
                     /\ occ[i] # "__proto__"
                     /\ \A j \in 1..(i - 1) : occ[j] # occ[i])
    IN  [k \in 1..Len(first) |->
            [value |-> occ[first[k]],
             key |-> IF occ[first[k]] \in InheritedProperties THEN -1
                     ELSE Cardinality({j \in 1..Len(occ) : occ[j] = occ[first[k]]})]]

TopTagCount == 10

\* lines 141-144
topTags(posts) ==
    LET top == slice(sortDescending(tagFrequency(posts)), TopTagCount)
    IN  {top[i].value : i \in 1..Len(top)}

\* lines 36-150: the posts array built from the listing rootItems
allPosts(rootItems) ==
    LET sorted == sortByPublishDate(scanPosts(rootItems))
        withRelated == [i \in 1..Len(sorted) |->
            [slug |-> sorted[i].slug,
             title |-> sorted[i].title,
             publishDate |-> sorted[i].publishDate,
             category |-> sorted[i].category,
             tags |-> sorted[i].tags,
             content |-> sorted[i].content,
             filePath |-> sorted[i].filePath,
             relatedPostSlugs |-> relatedPostSlugs(sorted[i], sorted)]]
        top == topTags(withRelated)
    IN  [i \in 1..Len(withRelated) |->
            IF withRelated[i].tags.isArray
            THEN [withRelated[i] EXCEPT
                    !.tags.items = SelectSeq(@, LAMBDA tag : tag \in top)]
            ELSE withRelated[i]]

updateIndexFile_stamped(rootItems, now) ==
    [lastUpdated |-> now,
     posts |-> [i \in 1..Len(allPosts(rootItems)) |->
                   [allPosts(rootItems)[i] EXCEPT !.content = now]]]

\* lines 153-159: the index data written at time now
updateIndexFile(rootItems, now) ==
    [lastUpdated |-> now, posts |-> allPosts(rootItems)]

\* ------------------------------------------------------------------------
\* State
\* ------------------------------------------------------------------------
VARIABLES
    \* one call of generateAISlug
    slugPc,        \* "start" | "done" ("idle" when the call is not modelled)
    slugTitle,     \* its title argument
    slugOutcome,   \* the outcome of its request to the AI
    slugResult,    \* the slug it returned
    \* one run of generateUniqueTopics(count, trendingData)
    topicPc,               \* "outer" | "inner" | "done" ("idle")
    count,
    trendingData,
    apiKeySet,             \* ANTHROPIC_API_KEY is set
    allPublishedSlugs,     \* read from index.json
    allPublishedTitles,
    topics,
    existingSlugsInternal,
    usedKeywords,
    recentCategories,
    recentKeywordPairs,    \* a JS Set: its elements in insertion order
    attempts,
    topicGenerated

slugVars == <<slugPc, slugTitle, slugOutcome, slugResult>>
topicVars == <<topicPc, count, trendingData, apiKeySet, allPublishedSlugs,
               allPublishedTitles, topics, existingSlugsInternal, usedKeywords,
               recentCategories, recentKeywordPairs, attempts, topicGenerated>>

\* ------------------------------------------------------------------------
\* One call of generateAISlug on any title, with any outcome of the request
\* ------------------------------------------------------------------------
Titles == StringsUpTo({"A", " ", "-", "!"}, MaxTitleLen)
Responses == StringsUpTo({"n", "A", "-", " ", "'", Backslash}, MaxRespLen)
SlugOutcomes == {NoApiKey, NotOk, Throws} \cup {Answer(t) : t \in Responses}

SlugIdle ==
    /\ slugPc = "idle"
    /\ slugTitle = <<>>
    /\ slugOutcome = NoApiKey
    /\ slugResult = <<>>

SlugInit ==
    /\ slugPc = "start"
    /\ slugTitle \in Titles
    /\ slugOutcome = NoApiKey
    /\ slugResult = <<>>

callGenerateAISlug ==
    /\ slugPc = "start"
    /\ \E outcome \in SlugOutcomes :
        /\ slugOutcome' = outcome
        /\ slugResult' = generateAISlug(slugTitle, outcome)
    /\ slugPc' = "done"
    /\ UNCHANGED slugTitle

\* ------------------------------------------------------------------------
\* enhanced-topic-generator.ts: generateUniqueTopics
\* ------------------------------------------------------------------------
MaxCount == 3
DEFAULT_TOPIC_COUNT == 2
RECENT_HISTORY_COUNT == 3
SixAttempts == 2 * 3
MAX_GENERATION_ATTEMPTS == 5

\* answers the AI gives to the title and the slug request
\* (a thrown error takes the same branch as a non-OK status in both functions)
AITitleOutcomes ==
    {NotOk,
     Answer(<<"Q", "u", "i", "t", " ", "S", "u", "g", "a", "r", " ", "N", "o", "w">>),
     Answer(<<"1", ".", " ", "K", "e", "t", "o", " ", "T", "i", "p", "s">>),
     Answer(<<"!", "!">>)}
AISlugOutcomes == {NotOk, Answer(<<"q", "u", "i", "t", "-", "s", "u", "g", "a", "r">>)}

\* posts of an existing public/blog-data/index.json
IndexFixtures ==
    {<<[slug |-> <<"k", "e", "t", "o", "-", "t", "i", "p", "s">>,
        title |-> <<"K", "e", "t", "o", " ", "T", "I", "P", "S", " ">>]>>}

TopicIdle ==
    /\ topicPc = "idle"
    /\ count = 0
    /\ trendingData = Null
    /\ apiKeySet = FALSE
    /\ allPublishedSlugs = {}
    /\ allPublishedTitles = {}
    /\ topics = <<>>
    /\ existingSlugsInternal = {}
    /\ usedKeywords = {}
    /\ recentCategories = <<>>
    /\ recentKeywordPairs = <<>>
    /\ attempts = 0
    /\ topicGenerated = FALSE

\* lines 414-445: the empty collections, and the slugs and titles of the
\* posts of the existing index
TopicInit ==
    /\ topicPc = "outer"
    /\ apiKeySet \in BOOLEAN
    \* with answers of the AI, batches of up to the default size; with the
    \* deterministic fallbacks alone, batches of up to MaxCount topics
    /\ count \in 0..(IF apiKeySet THEN DEFAULT_TOPIC_COUNT ELSE MaxCount)
    /\ trendingData \in {Null, TrendingFixture}
    /\ \E posts \in IndexFixtures :
        /\ allPublishedSlugs = {posts[i].slug : i \in {j \in 1..Len(posts) : Len(posts[j].slug) > 0}}
        /\ allPublishedTitles =
               {trim(toLowerCase(posts[i].title)) : i \in {j \in 1..Len(posts) : Len(posts[j].title) > 0}}
    /\ topics = <<>>
    /\ existingSlugsInternal = {}
    /\ usedKeywords = {}
    /\ recentCategories = <<>>
    /\ recentKeywordPairs = <<>>
    /\ attempts = 0
    /\ topicGenerated = FALSE

\* topic._primaryKeywords.sort().join('|'): the selected keywords are distinct
\* and hold no '|', so the string stands for the set of the keywords
keywordPairString(topic) == Range(topic.primaryKeywords)

\* the candidates one call of generateBlogTopic can return in this state
candidateTopics ==
    UNION {generateBlogTopic(trendingData, usedKeywords, recentCategories, t, s) :
              t \in IF apiKeySet THEN AITitleOutcomes ELSE {NoApiKey},
              s \in IF apiKeySet THEN AISlugOutcomes ELSE {NoApiKey}}

\* the checks of lines 462-485
isRejected_noPublishedCheck(topic) ==
    \/ Len(topic.slug) = 0
    \/ topic.slug \in existingSlugsInternal
    \/ \E i \in 1..Len(recentKeywordPairs) : recentKeywordPairs[i] = keywordPairString(topic)

isRejected(topic) ==
    \/ Len(topic.slug) = 0
    \/ topic.slug \in existingSlugsInternal
    \/ topic.slug \in allPublishedSlugs
    \/ trim(toLowerCase(topic.title)) \in allPublishedTitles
    \/ \E i \in 1..Len(recentKeywordPairs) : recentKeywordPairs[i] = keywordPairString(topic)

\* line 447: while (topics.length < count), entering the attempt loop
startTopic ==
    /\ topicPc = "outer"
    /\ Len(topics) < count
    /\ attempts' = 0
    /\ topicGenerated' = FALSE
    /\ topicPc' = "inner"
    /\ UNCHANGED <<count, trendingData, apiKeySet, allPublishedSlugs, allPublishedTitles,
                   topics, existingSlugsInternal, usedKeywords, recentCategories,
                   recentKeywordPairs>>

\* lines 452-485: an attempt whose candidate fails a check (continue)
rejectTopic ==
    /\ topicPc = "inner"
    /\ attempts < MAX_GENERATION_ATTEMPTS /\ ~topicGenerated
    /\ \E topic \in candidateTopics : isRejected(topic)
    /\ attempts' = attempts + 1
    /\ UNCHANGED <<topicPc, count, trendingData, apiKeySet, allPublishedSlugs,
                   allPublishedTitles, topics, existingSlugsInternal, usedKeywords,
                   recentCategories, recentKeywordPairs, topicGenerated>>

\* lines 452-506: an attempt whose candidate passes the checks
acceptTopic ==
    /\ topicPc = "inner"
    /\ attempts < MAX_GENERATION_ATTEMPTS /\ ~topicGenerated
    /\ \E topic \in candidateTopics :
        /\ ~isRejected(topic)
        /\ existingSlugsInternal' = existingSlugsInternal \cup {topic.slug}
        /\ usedKeywords' = usedKeywords \cup Range(topic.primaryKeywords)
        /\ LET pairs == Append(recentKeywordPairs, keywordPairString(topic))
           IN  recentKeywordPairs' =
                   IF Len(pairs) > RECENT_HISTORY_COUNT * 2 THEN Tail(pairs) ELSE pairs
        /\ LET cats == Append(recentCategories, topic.category)
           IN  recentCategories' =
                   IF Len(cats) > RECENT_HISTORY_COUNT THEN Tail(cats) ELSE cats
        /\ topics' = Append(topics, [title |-> topic.title, slug |-> topic.slug,
                                     category |-> topic.category,
                                     trendScore |-> topic.trendScore])
    /\ attempts' = attempts + 1
    /\ topicGenerated' = TRUE
    /\ UNCHANGED <<topicPc, count, trendingData, apiKeySet, allPublishedSlugs,
                   allPublishedTitles>>

\* line 452 false with topicGenerated: back to the test of line 447
topicDone ==
    /\ topicPc = "inner"
    /\ topicGenerated
    /\ topicPc' = "outer"
    /\ UNCHANGED <<count, trendingData, apiKeySet, allPublishedSlugs, allPublishedTitles,
                   topics, existingSlugsInternal, usedKeywords, recentCategories,
                   recentKeywordPairs, attempts, topicGenerated>>

\* lines 509-512: the attempts are used up, break
giveUp ==
    /\ topicPc = "inner"
    /\ ~topicGenerated /\ attempts >= MAX_GENERATION_ATTEMPTS
    /\ topicPc' = "done"
    /\ UNCHANGED <<count, trendingData, apiKeySet, allPublishedSlugs, allPublishedTitles,
                   topics, existingSlugsInternal, usedKeywords, recentCategories,
                   recentKeywordPairs, attempts, topicGenerated>>

\* line 447 false, line 515: return topics
returnTopics ==
    /\ topicPc = "outer"
    /\ Len(topics) >= count
    /\ topicPc' = "done"
    /\ UNCHANGED <<count, trendingData, apiKeySet, allPublishedSlugs, allPublishedTitles,
                   topics, existingSlugsInternal, usedKeywords, recentCategories,
                   recentKeywordPairs, attempts, topicGenerated>>

\* ------------------------------------------------------------------------
\* The index of the posts: post files appear in public/blog-data and
\* rebuild-index.js is run
\* ------------------------------------------------------------------------
VARIABLES
    files,      \* the entries of public/blog-data other than index.json
    index,      \* the content of index.json (Null before the first run)
    runs,       \* what each run of rebuild-index.js read and wrote
    now         \* the clock

indexVars == <<files, index, runs, now>>

MaxFiles == 4
MaxRuns == 2

NoTags == [isArray |-> FALSE, items |-> <<>>]
Tags(items) == [isArray |-> TRUE, items |-> items]
NoData == [slug |-> "", title |-> "", publishDate |-> 0, category |-> "",
           tags |-> NoTags, content |-> 0, filePath |-> <<>>]
Post(slug, publishDate, category, tags, content) ==
    [slug |-> slug, title |-> slug, publishDate |-> publishDate, category |-> category,
     tags |-> tags, content |-> content, filePath |-> <<>>]
File(name, parses, data) ==
    [name |-> name, isDirectory |-> FALSE, parses |-> parses, data |-> data, items |-> <<>>]
JsonFile(base, data) == File(<<base>> \o DotJson, TRUE, data)
Directory(name, items) ==
    [name |-> name, isDirectory |-> TRUE, parses |-> FALSE, data |-> NoData, items |-> items]

\* the post files and other entries that can appear in public/blog-data
E_A == JsonFile("a", Post("a", 5, "Nutrition", Tags(<<"sugar", "health">>), 400))
E_B == JsonFile("b", Post("b", 4, "Wellness", Tags(<<"sugar">>), 10))
Entries ==
    LET N_date == <<"0", "1", "-", "0", "2", "-", "2", "0", "2", "5">>
        N_drafts == <<"d", "r", "a", "f", "t", "s">>
        N_notes_txt == <<"n", "o", "t", "e", "s", ".", "t", "x", "t">>
        TenTags == <<"t1", "t2", "t3", "t4", "t5", "t6", "t7", "t8", "t9", "t10">>
    IN  {E_A, E_B,
         JsonFile("m", Post("m", 9, "", Tags(TenTags), 0)),
         JsonFile("k", Post("k", 8, "Wellness", Tags(<<"constructor", "sugar">>), 10)),
         JsonFile("c", Post("a", 1, "Nutrition", Tags(<<"health", "health">>), 10)),
         \* a post written by generateBlog into the date directory (its
         \* filePath field names that place) that now lies at the root
         JsonFile("q", [Post("q", 2, "", NoTags, 10) EXCEPT
                           !.filePath = N_date \o <<"/", "q">> \o DotJson]),
         Directory(N_date,
            <<JsonFile("s", Post("s", 3, "Nutrition", Tags(<<"sugar", "rare">>), 10)),
              JsonFile("w", Post("w", 6, "Wellness", Tags(<<"sugar">>), 10)),
              JsonFile("z", Post("z", 3, "Nutrition", NoTags, 10)),
              JsonFile("u", Post("u", 0, "Nutrition", Tags(<<"sugar">>), 10)),
              File(<<"x">> \o DotJson, FALSE, NoData),
              File(N_notes_txt, FALSE, NoData)>>),
         Directory(N_drafts,
            <<JsonFile("d", Post("d", 7, "Nutrition", Tags(<<"sugar">>), 10))>>),
         File(N_notes_txt, FALSE, NoData)}

E_index == File(N_index_json, TRUE, NoData)

IndexIdle ==
    /\ files = <<>>
    /\ index = Null
    /\ runs = <<>>
    /\ now = -1

IndexInit ==
    /\ files = <<>>
    /\ index = Null
    /\ runs = <<>>
    /\ now = 0

\* a file or a directory appears in public/blog-data
addEntry ==
    /\ now >= 0
    /\ Len(files) < MaxFiles
    /\ \E e \in Entries :
        /\ e \notin Range(files)
        /\ files' = Append(files, e)
    /\ UNCHANGED <<index, runs, now>>

\* fs.readdirSync(BLOG_DATA_DIR): index.json is listed once it exists
readdirSync == IF index = Null THEN files ELSE <<E_index>> \o files

\* one run of rebuild-index.js
rebuildIndex ==
    /\ now >= 0
    /\ now < MaxRuns
    /\ now' = now + 1
    /\ index' = updateIndexFile(readdirSync, now')
    /\ runs' = Append(runs, [rootItems |-> readdirSync, indexData |-> index'])
    /\ UNCHANGED files

\* ------------------------------------------------------------------------
\* aiBlogGenerator.ts: generateMetaDescription
\* ------------------------------------------------------------------------
VARIABLES
    metaPc,       \* "start" | "done" ("idle" when the call is not modelled)
    metaTitle,    \* the title argument
    metaOutcome,  \* the outcome of the request to the AI
    metaResult    \* what the call returned or threw

metaVars == <<metaPc, metaTitle, metaOutcome, metaResult>>

MaxMetaLen == 160

Returned(value) == [kind |-> "returned", value |-> value]
Thrown == [kind |-> "thrown"]

generateMetaDescription_cutAt155(title, outcome) ==
    IF outcome.kind # "text" THEN Thrown
    ELSE LET trimmed == trim(outcome.text)
             text == [i \in 1..Len(trimmed) |->
                         IF trimmed[i] = Newline THEN " " ELSE trimmed[i]]
             cut == IF Len(text) > 155 THEN SubSeq(text, 1, 155) \o <<".", ".", ".">>
                    ELSE text
         IN  IF Len(cut) < 50 /\ title # <<>> THEN Thrown ELSE Returned(cut)

\* lines 513-516, 566-586
generateMetaDescription(title, outcome) ==
    IF outcome.kind # "text" THEN Thrown
    ELSE LET trimmed == trim(outcome.text)
             noNewlines == [i \in 1..Len(trimmed) |->
                               IF trimmed[i] = Newline THEN " " ELSE trimmed[i]]
             generatedMetaDesc ==
                 IF Len(noNewlines) > 155
                 THEN SubSeq(noNewlines, 1, 152) \o <<".", ".", ".">>
                 ELSE noNewlines
         IN  IF Len(generatedMetaDesc) < 50 /\ title # <<>>
             THEN Thrown
             ELSE Returned(generatedMetaDesc)

\* the texts the AI can answer: up to MaxMetaLen characters, with or without
\* a newline inside, a leading space and a trailing newline
MetaTexts ==
    {lead \o [i \in 1..n |-> IF i = k THEN Newline ELSE Lower[(i % 26) + 1]] \o trail :
        n \in 0..MaxMetaLen, k \in {0, 2, 153},
        lead \in {<<>>, <<" ">>}, trail \in {<<>>, <<Newline>>}}

MetaOutcomes == {NoApiKey, NotOk} \cup {Answer(t) : t \in MetaTexts}

MetaIdle ==
    /\ metaPc = "idle"
    /\ metaTitle = <<>>
    /\ metaOutcome = NoApiKey
    /\ metaResult = Thrown

MetaInit ==
    /\ metaPc = "start"
    /\ metaTitle \in {<<>>, <<"T">>}
    /\ metaOutcome = NoApiKey
    /\ metaResult = Thrown

callGenerateMetaDescription ==
    /\ metaPc = "start"
    /\ \E outcome \in MetaOutcomes :
        /\ metaOutcome' = outcome
        /\ metaResult' = generateMetaDescription(metaTitle, outcome)
    /\ metaPc' = "done"
    /\ UNCHANGED metaTitle

\* ------------------------------------------------------------------------
\* ideogramApi.ts: generateImage
\* ------------------------------------------------------------------------
VARIABLES
    imageRetryCount,   \* the retryCount argument
    imageResponses,    \* the outcome of each attempt so far
    imageDelays,       \* the waits so far, in ms
    imageResult        \* Pending, Returned(imageUrl) or thrown with the last error

imageVars == <<imageRetryCount, imageResponses, imageDelays, imageResult>>

MaxRetryCount == 6
retryCount == 3

Pending == [kind |-> "pending"]

\* lines 73-75, 106-121, 127-140: what makes an attempt throw
ImageFailures == {"noApiKey", "nonOk", "emptyBody", "html", "noData"}

backoffMs_uncapped(attempt) == 1000 * 2 ^ (attempt - 1)

\* line 157
backoffMs(attempt) == Min({1000 * 2 ^ (attempt - 1), 10000})

ImageIdle ==
    /\ imageRetryCount = 0
    /\ imageResponses = <<>>
    /\ imageDelays = <<>>
    /\ imageResult = Pending

\* One pass of the loop of lines 72-162: the API answers with the URL of an
\* image or with data whose first image has no URL (lines 142-145), or the
\* attempt throws; the loop waits (lines 155-160) or, after the last
\* attempt, the last error is thrown (line 165).  failures are the
\* failures to explore, some of ImageFailures.
generateImageAttempt(failures) ==
    /\ imageResult = Pending
    /\ Len(imageResponses) < imageRetryCount
    /\ \E response \in failures \cup {"url", "noUrl"} :
        LET attempt == Len(imageResponses) + 1
        IN  /\ imageResponses' = Append(imageResponses, response)
            /\ IF response \notin ImageFailures
               THEN /\ imageResult' = Returned(IF response = "url" THEN "url" ELSE "")
                    /\ imageDelays' = imageDelays
               ELSE IF attempt < imageRetryCount
               THEN /\ imageResult' = Pending
                    /\ imageDelays' = Append(imageDelays, backoffMs(attempt))
               ELSE /\ imageResult' = [kind |-> "thrown", error |-> response]
                    /\ imageDelays' = imageDelays
    /\ UNCHANGED imageRetryCount

\* ------------------------------------------------------------------------
\* generate-inline-blog-images.ts: updateSitemap and updateLlmsTxt
\* ------------------------------------------------------------------------
\* A file is Null when it does not exist, else the sequence of its parts.
\* The parts of sitemap.xml are "open", "close" (the tag </urlset>), "url"
\* (a <url> element whose <loc> is the URL of the slug) and "text"; the
\* parts of llms.txt are its lines: "blogPosts" (the line ## Blog Posts),
\* "heading" (another line that starts with ## ), "link" (a line that
\* holds the URL of the slug in parentheses) and "text".
VARIABLES sitemapContent, llmsContent

fileVars == <<sitemapContent, llmsContent>>

Part(kind, slug) == [kind |-> kind, slug |-> slug]

FileIdle == sitemapContent = Null /\ llmsContent = Null

\* the positions of the parts of a kind
partsOf(content, kind) == {i \in 1..Len(content) : content[i].kind = kind}

\* lines 754-813; a failed write is caught and leaves the file as it was
updateSitemap(content, newSlugs, written) ==
    IF content = Null \/ partsOf(content, "close") = {} THEN content
    ELSE LET closingTagIndex == Max(partsOf(content, "close"))
             fresh == SelectSeq(newSlugs, LAMBDA slug : Part("url", slug) \notin Range(content))
             newEntries == [i \in 1..Len(fresh) |-> Part("url", fresh[i])]
         IN  IF newEntries = <<>> \/ ~written THEN content
             ELSE SubSeq(content, 1, closingTagIndex - 1) \o newEntries
                  \o SubSeq(content, closingTagIndex, Len(content))

\* lines 823-900; posts are the posts of index.json
updateLlmsTxt(content, posts, newSlugs, written) ==
    IF content = Null \/ partsOf(content, "blogPosts") = {} THEN content
    ELSE LET sectionStart == Min(partsOf(content, "blogPosts"))
             headings == {i \in partsOf(content, "blogPosts") \cup partsOf(content, "heading") :
                             i > sectionStart}
             sectionEnd == IF headings = {} THEN Len(content) + 1 ELSE Min(headings)
             existingSection == SubSeq(content, sectionStart + 1, sectionEnd - 1)
             fresh == SelectSeq(newSlugs, LAMBDA slug :
                         /\ \E i \in 1..Len(posts) : posts[i].slug = slug
                         /\ Part("link", slug) \notin Range(existingSection))
             newLines == [i \in 1..Len(fresh) |-> Part("link", fresh[i])]
         IN  IF newLines = <<>> \/ ~written THEN content
             ELSE SubSeq(content, 1, sectionEnd - 1) \o newLines
                  \o SubSeq(content, sectionEnd, Len(content))

\* the slug lists the updaters are called with
SlugLists == {<<>>, <<"a">>, <<"b">>, <<"a", "b">>, <<"b", "b">>}

callUpdateSitemap ==
    /\ \E newSlugs \in SlugLists, written \in BOOLEAN :
        sitemapContent' = updateSitemap(sitemapContent, newSlugs, written)
    /\ UNCHANGED llmsContent

\* index.json lists the post a, or the posts a and b
callUpdateLlmsTxt ==
    /\ \E newSlugs \in SlugLists, written \in BOOLEAN,
          posts \in {<<[slug |-> "a"]>>, <<[slug |-> "a"], [slug |-> "b"]>>} :
        llmsContent' = updateLlmsTxt(llmsContent, posts, newSlugs, written)
    /\ UNCHANGED sitemapContent

\* ------------------------------------------------------------------------
\* generate-inline-blog-images.ts: main and generateBlog, with
\* generateBlogContent (aiBlogGenerator.ts) and generateBlogImage
\* (ideogramApi.ts)
\* ------------------------------------------------------------------------
VARIABLES
    batchPc,           \* "loop" | "content" | "prepare" | "image" | "download"
                       \* | "finished" ("idle" when the batch is not modelled)
    today,             \* the date of the run
    topicsToProcess,   \* the slugs of the topics of the batch
    topicIndex,        \* the position of the for loop of main
    contentResponses,  \* generateBlogContent: the outcome of each attempt so far
    contentDelays,     \* generateBlogContent: the waits so far, in ms
    contentResult,     \* generateBlogContent: Pending, Returned(..) or Thrown
    seoMetaDescription,\* generateBlog: "generated", or "topic" for topic.metaDescription
    imageUrl,          \* generateBlog: what generateBlogImage returned
    generatedSlugs,
    failedBlogs,
    newBlogFile,       \* generateBlog: the post it wrote for the topic, or Null
    blogFiles,         \* the post files under public/blog-data: path, slug, date
    updatedSlugs,      \* the slugs passed to updateIndexFile, updateSitemap, updateLlmsTxt
    persistedIndex,    \* the posts of public/blog-data/index.json
    exitCode           \* -1 while main runs; then the status the process ends with

batchVars == <<batchPc, today, topicsToProcess, topicIndex, contentResponses,
               contentDelays, contentResult, seoMetaDescription, imageUrl,
               generatedSlugs, failedBlogs, newBlogFile, blogFiles, updatedSlugs,
               persistedIndex, exitCode>>

MaxTopics == 2
MaxDays == 2
FourAttempts == 2 + 2
maxAttempts == 3
retryDelayMs == 5000

\* generateDailyTopics lines 342-358: the slugs of the fallback topics
fallbackTopics == <<"beat-sugar-cravings-naturally", "sugar-and-inflammation-link">>

\* generateDailyTopics lines 326-341: the slugs of the topics read from
\* latest-topics.json or printed by topic-generator.ts; the file can hold no
\* topic, and no generator asks what the earlier days have published
DailyTopics == {fallbackTopics, <<"quit-sugar-now", "beat-sugar-cravings-naturally">>, <<>>}

BatchIdle ==
    /\ batchPc = "idle"
    /\ today = 0
    /\ topicsToProcess = <<>>
    /\ topicIndex = 0
    /\ contentResponses = <<>>
    /\ contentDelays = <<>>
    /\ contentResult = Pending
    /\ seoMetaDescription = ""
    /\ imageUrl = ""
    /\ generatedSlugs = <<>>
    /\ failedBlogs = 0
    /\ newBlogFile = Null
    /\ blogFiles = <<>>
    /\ updatedSlugs = <<>>
    /\ persistedIndex = <<>>
    /\ exitCode = -1

\* day 0: no run yet, no post file, no index, an empty sitemap, and an
\* llms.txt with an empty section of blog posts
BatchInit ==
    /\ sitemapContent = <<Part("open", ""), Part("close", "")>>
    /\ llmsContent = <<Part("text", ""), Part("blogPosts", ""), Part("heading", "")>>
    /\ batchPc = "finished"
    /\ today = 0
    /\ topicsToProcess = <<>>
    /\ topicIndex = 1
    /\ contentResponses = <<>>
    /\ contentDelays = <<>>
    /\ contentResult = Pending
    /\ seoMetaDescription = ""
    /\ imageUrl = ""
    /\ generatedSlugs = <<>>
    /\ failedBlogs = 0
    /\ newBlogFile = Null
    /\ blogFiles = <<>>
    /\ updatedSlugs = <<>>
    /\ persistedIndex = <<>>
    /\ exitCode = 0
    /\ ImageIdle

\* main lines 907-935: the run of the next day starts with
\* numBlogsToGenerate of the topics
nextRun ==
    /\ batchPc = "finished"
    /\ today < MaxDays
    /\ batchPc' = "loop"
    /\ today' = today + 1
    /\ \E allDailyTopics \in DailyTopics, numBlogsToGenerate \in 1..MaxTopics :
        topicsToProcess' = slice(allDailyTopics, numBlogsToGenerate)
    /\ topicIndex' = 1
    /\ contentResponses' = <<>>
    /\ contentDelays' = <<>>
    /\ contentResult' = Pending
    /\ seoMetaDescription' = ""
    /\ imageUrl' = ""
    /\ imageRetryCount' = retryCount
    /\ imageResponses' = <<>>
    /\ imageDelays' = <<>>
    /\ imageResult' = Pending
    /\ generatedSlugs' = <<>>
    /\ failedBlogs' = 0
    /\ newBlogFile' = Null
    /\ updatedSlugs' = <<>>
    /\ exitCode' = -1
    /\ UNCHANGED <<blogFiles, persistedIndex>>

\* generateBlog lines 610-615 and main lines 940-949: generateBlog returns
\* null, the failure is counted and the loop goes on
blogFailed_slugStillListed ==
    /\ failedBlogs' = failedBlogs + 1
    /\ generatedSlugs' = Append(generatedSlugs, topicsToProcess[topicIndex])
    /\ topicIndex' = topicIndex + 1
    /\ batchPc' = "loop"
    /\ UNCHANGED <<today, topicsToProcess, blogFiles, updatedSlugs, persistedIndex, exitCode>>

blogFailed ==
    /\ failedBlogs' = failedBlogs + 1
    /\ topicIndex' = topicIndex + 1
    /\ batchPc' = "loop"
    /\ UNCHANGED <<today, topicsToProcess, generatedSlugs, blogFiles, updatedSlugs,
                   persistedIndex, exitCode>>

\* generateBlog writes the post file <date>/<slug>.json, over a file of that
\* path if there is one, and returns the slug (lines 504-520 and 586-609);
\* main lines 940-942.  A failed write throws inside generateBlog.
blogWritten(featuredImage) ==
    \E written \in BOOLEAN :
        IF written
        THEN LET slug == topicsToProcess[topicIndex]
                 file == [filePath |-> <<today, slug>>, slug |-> slug,
                          publishDate |-> today]
                 same == {i \in 1..Len(blogFiles) : blogFiles[i].filePath = file.filePath}
             IN  /\ newBlogFile' = [slug |-> slug,
                                     metaDescription |-> seoMetaDescription,
                                     featuredImage |-> featuredImage]
                 /\ blogFiles' = IF same = {} THEN Append(blogFiles, file)
                                 ELSE [i \in 1..Len(blogFiles) |->
                                          IF i \in same THEN file ELSE blogFiles[i]]
                 /\ generatedSlugs' = Append(generatedSlugs, slug)
                 /\ topicIndex' = topicIndex + 1
                 /\ batchPc' = "loop"
                 /\ UNCHANGED <<today, topicsToProcess, failedBlogs, updatedSlugs,
                                persistedIndex, exitCode>>
        ELSE UNCHANGED newBlogFile /\ blogFailed

\* main line 937, generateBlog lines 390-424 and generateBlogContent lines
\* 158-165: the next topic; reading the template can fail, and
\* generateBlogContent throws at once without its API key
startBlog ==
    /\ batchPc = "loop"
    /\ topicIndex <= Len(topicsToProcess)
    /\ contentResponses' = <<>>
    /\ contentDelays' = <<>>
    /\ seoMetaDescription' = ""
    /\ imageUrl' = ""
    /\ newBlogFile' = Null
    /\ imageRetryCount' = retryCount
    /\ imageResponses' = <<>>
    /\ imageDelays' = <<>>
    /\ imageResult' = Pending
    /\ \E started \in {"templateError", "noApiKey", "ok"} :
        IF started = "ok"
        THEN /\ batchPc' = "content"
             /\ contentResult' = Pending
             /\ UNCHANGED <<today, topicsToProcess, topicIndex, generatedSlugs,
                            failedBlogs, blogFiles, updatedSlugs, persistedIndex,
                            exitCode>>
        ELSE /\ contentResult' = IF started = "noApiKey" THEN Thrown ELSE Pending
             /\ blogFailed

contentAttempt_abortsBatch ==
    /\ batchPc = "content"
    /\ \E response \in {"ok", "nonOk"} :
        /\ contentResponses' = Append(contentResponses, response)
        /\ IF response = "ok"
           THEN /\ batchPc' = "prepare"
                /\ contentResult' = Returned("html")
                /\ UNCHANGED <<failedBlogs, topicIndex>>
           ELSE IF Len(contentResponses') < maxAttempts
           THEN UNCHANGED <<batchPc, contentResult, failedBlogs, topicIndex>>
           ELSE /\ failedBlogs' = failedBlogs + 1
                /\ topicIndex' = Len(topicsToProcess) + 1
                /\ contentResult' = Thrown
                /\ batchPc' = "loop"
    /\ UNCHANGED <<today, topicsToProcess, contentDelays, seoMetaDescription, imageUrl,
                   generatedSlugs, newBlogFile, blogFiles, updatedSlugs, persistedIndex,
                   exitCode, imageVars>>

\* generateBlogContent lines 266-341: one pass of the retry loop, which
\* waits retryDelayMs after a failed attempt that is not the last.  After an
\* OK response the rest of the function runs (lines 343-417), where a
\* failed request for the video search query throws; every error leaves
\* generateBlogContent as an error (lines 419-423), which generateBlog
\* rethrows (lines 448-452) and then catches (lines 610-615).
contentAttempt ==
    /\ batchPc = "content"
    /\ \E response \in {"ok", "nonOk", "fetchError", "abort"} :
        /\ contentResponses' = Append(contentResponses, response)
        /\ IF response = "ok"
           THEN /\ contentDelays' = contentDelays
                /\ \E searchQuery \in BOOLEAN :
                    IF searchQuery
                    THEN /\ contentResult' = Returned("html")
                         /\ batchPc' = "prepare"
                         /\ UNCHANGED <<today, topicsToProcess, topicIndex,
                                        generatedSlugs, failedBlogs, blogFiles,
                                        updatedSlugs, persistedIndex, exitCode>>
                    ELSE contentResult' = Thrown /\ blogFailed
           ELSE IF Len(contentResponses') < maxAttempts
           THEN /\ contentDelays' = Append(contentDelays, retryDelayMs)
                /\ UNCHANGED <<batchPc, contentResult, today, topicsToProcess,
                               topicIndex, generatedSlugs, failedBlogs, blogFiles,
                               updatedSlugs, persistedIndex, exitCode>>
           ELSE /\ contentDelays' = contentDelays
                /\ contentResult' = Thrown
                /\ blogFailed
    /\ UNCHANGED <<seoMetaDescription, imageUrl, newBlogFile, imageVars>>

\* the outcomes of the request of generateMetaDescription in a run: no
\* answer, an answer that is too short, an answer of 60 characters
SeoMetaOutcomes == {NoApiKey, NotOk, Answer(<<"O", "K">>), Answer([i \in 1..60 |-> "a"])}

\* generateBlog lines 457-475: the preview, whose failed request throws, and
\* the meta description, whose failure leaves the one of the topic
prepareBlog ==
    /\ batchPc = "prepare"
    /\ \E preview \in BOOLEAN :
        IF preview
        THEN /\ \E outcome \in SeoMetaOutcomes :
                 seoMetaDescription' =
                     IF generateMetaDescription(<<"T">>, outcome) = Thrown
                     THEN "topic" ELSE "generated"
             /\ batchPc' = "image"
             /\ UNCHANGED <<today, topicsToProcess, topicIndex, generatedSlugs,
                            failedBlogs, blogFiles, updatedSlugs, persistedIndex,
                            exitCode>>
        ELSE UNCHANGED seoMetaDescription /\ blogFailed
    /\ UNCHANGED <<contentResponses, contentDelays, contentResult, imageUrl, newBlogFile,
                   imageVars>>

\* generateBlog line 500: generateBlogImage (lines 409-417) awaits
\* generateImage with the default retryCount and rethrows what it throws,
\* which generateBlog catches (lines 610-615).  With no URL generateBlog
\* writes the post without an image (lines 502-521).
imageAttempt ==
    /\ batchPc = "image"
    /\ generateImageAttempt({"nonOk"})
    /\ UNCHANGED <<contentResponses, contentDelays, contentResult, seoMetaDescription>>
    /\ IF imageResult' = Pending
       THEN UNCHANGED <<batchPc, today, topicsToProcess, topicIndex, imageUrl,
                        generatedSlugs, failedBlogs, newBlogFile, blogFiles,
                        updatedSlugs, persistedIndex, exitCode>>
       ELSE IF imageResult'.kind = "thrown"
       THEN UNCHANGED <<imageUrl, newBlogFile>> /\ blogFailed
       ELSE /\ imageUrl' = imageResult'.value
            /\ IF imageUrl' = ""
               THEN blogWritten("none")
               ELSE /\ batchPc' = "download"
                    /\ UNCHANGED <<today, topicsToProcess, topicIndex, generatedSlugs,
                                   failedBlogs, newBlogFile, blogFiles, updatedSlugs,
                                   persistedIndex, exitCode>>

\* generateBlog lines 524-609: the image is downloaded, saved and optimized
\* (the original is kept when the optimization fails), the post is written
downloadImage ==
    /\ batchPc = "download"
    /\ UNCHANGED <<contentResponses, contentDelays, contentResult, seoMetaDescription,
                   imageUrl, imageVars>>
    /\ \E downloaded \in BOOLEAN, optimized \in BOOLEAN :
        IF downloaded
        THEN blogWritten(IF optimized THEN "optimized" ELSE "original")
        ELSE UNCHANGED newBlogFile /\ blogFailed

\* main lines 958-981: with a generated slug the index is rebuilt from the
\* post files, newest first (the inline updateIndexFile, lines 620-745,
\* which rethrows), then the sitemap and llms.txt are updated; main exits
\* with 1 when a blog failed or the rebuild threw
finishBatch ==
    /\ batchPc = "loop"
    /\ topicIndex > Len(topicsToProcess)
    /\ batchPc' = "finished"
    /\ \E indexWritten \in BOOLEAN :
        IF generatedSlugs = <<>>
        THEN /\ UNCHANGED <<updatedSlugs, persistedIndex, fileVars>>
             /\ exitCode' = IF failedBlogs > 0 THEN 1 ELSE 0
        ELSE IF indexWritten
        THEN /\ persistedIndex' = sortByPublishDate(blogFiles)
             /\ updatedSlugs' = generatedSlugs
             /\ \E written \in BOOLEAN :
                 sitemapContent' = updateSitemap(sitemapContent, generatedSlugs, written)
             /\ \E written \in BOOLEAN :
                 llmsContent' = updateLlmsTxt(llmsContent, persistedIndex',
                                              generatedSlugs, written)
             /\ exitCode' = IF failedBlogs > 0 THEN 1 ELSE 0
        ELSE /\ UNCHANGED <<updatedSlugs, persistedIndex, fileVars>>
             /\ exitCode' = 1
    /\ UNCHANGED <<today, topicsToProcess, topicIndex, contentResponses, contentDelays,
                   contentResult, seoMetaDescription, imageUrl, generatedSlugs,
                   failedBlogs, newBlogFile, blogFiles, imageVars>>

\* ------------------------------------------------------------------------
\* BlogPage.tsx: fetchBlogPosts, the effect that loads the index
\* ------------------------------------------------------------------------
\* pagePc: "idle", "mounted" (effect not yet run), "loop" (in the for loop of
\* line 177), "done" (after the finally of line 273).  pageFetched is the
\* list of the requests made by the loop, each with its outcome: "ok",
\* "notOk" (a response whose ok is false) or "rejected" (fetch rejects:
\* network error).  error and debugInfo are the values last given to
\* setError and setDebugInfo, blogPosts the one given to setBlogPosts.
VARIABLES pagePc, pageFetched, loading, error, debugInfo, blogPosts

pageVars == <<pagePc, pageFetched, loading, error, debugInfo, blogPosts>>

potentialPaths ==
    <<"/blog-data/index.json", "/public/blog-data/index.json",
      "https://stoppr.app/blog-data/index.json",
      "https://www.stoppr.app/blog-data/index.json">>

PageIdle ==
    /\ pagePc = "idle"
    /\ pageFetched = <<>>
    /\ loading = FALSE
    /\ error = Null
    /\ debugInfo = Null
    /\ blogPosts = <<>>

\* BlogPage when it is mounted: useState of loading is true, the others null
PageInit ==
    /\ pagePc = "mounted"
    /\ pageFetched = <<>>
    /\ loading = TRUE
    /\ error = Null
    /\ debugInfo = Null
    /\ blogPosts = <<>>

\* what fetch gives: a response with a status, or a rejection (network error)
Response(status) == [kind |-> "response", status |-> status]
Rejected == [kind |-> "rejected"]
FetchOutcomes == {Rejected, Response(200), Response(404), Response(500)}

\* lines 145-175: setLoading(true), then the request for /blog-data/, whose
\* rejection is caught (line 160) and whose status 404 sets the debug info
startFetchBlogPosts ==
    /\ pagePc = "mounted"
    /\ pagePc' = "loop"
    /\ loading' = TRUE
    /\ \E directoryCheckResponse \in FetchOutcomes :
        debugInfo' = IF directoryCheckResponse = Response(404)
                     THEN "Blog data directory not found" ELSE debugInfo
    /\ UNCHANGED <<pageFetched, error, blogPosts>>

\* One pass of the loop of lines 177-187 and, when the loop ends with it, the
\* rest of the function: the test of line 190, response.json() and the
\* processing of the posts (lines 195-268), the catch of lines 269-272 and
\* the finally of lines 273-276.  response.ok is status 200..299.
fetchPotentialPath ==
    /\ pagePc = "loop"
    /\ LET indexUrl == potentialPaths[Len(pageFetched) + 1]
           lastPath == Len(pageFetched) + 1 = Len(potentialPaths)
       IN  \E response \in FetchOutcomes :
            /\ pageFetched' = Append(pageFetched, [path |-> indexUrl, response |-> response])
            /\ IF response = Rejected
               \* await fetch(indexUrl) throws inside the loop: line 269
               THEN /\ error' = [message |-> "fetch error"]
                    /\ debugInfo' = "Error details"
                    /\ pagePc' = "done" /\ loading' = FALSE
                    /\ UNCHANGED blogPosts
               ELSE IF response.status = 200
               \* break, then response.json(), which throws on an invalid body
               \* lines 201-209 keep the posts that have a title and a slug
               THEN \E data \in {Null, [posts |-> <<>>],
                                 [posts |-> <<[title |-> "Keto Tips", slug |-> "keto-tips"]>>],
                                 [posts |-> <<[title |-> "", slug |-> "quit-sugar"],
                                              [title |-> "Keto Tips", slug |-> "keto-tips"]>>]} :
                    /\ IF data # Null
                       THEN /\ blogPosts' = SelectSeq(data.posts,
                                    LAMBDA post : post.title # "" /\ post.slug # "")
                            /\ debugInfo' = [found |-> Len(data.posts)]
                            /\ UNCHANGED error
                       ELSE /\ error' = [message |-> "invalid JSON"]
                            /\ debugInfo' = "Error details"
                            /\ UNCHANGED blogPosts
                    /\ pagePc' = "done" /\ loading' = FALSE
               ELSE IF lastPath
               \* line 190: all paths failed
               THEN /\ error' = [message |-> "Failed to fetch blog posts from any location",
                                 lastAttempt |-> indexUrl, status |-> response.status]
                    /\ debugInfo' = "Error details"
                    /\ pagePc' = "done" /\ loading' = FALSE
                    /\ UNCHANGED blogPosts
               ELSE UNCHANGED <<pagePc, loading, error, debugInfo, blogPosts>>

\* ------------------------------------------------------------------------
\* aiBlogGenerator.ts: the YouTube video of generateBlogContent (358-417)
\* ------------------------------------------------------------------------
\* aiText is data.content[0].text.trim() (line 346) and generatedContent the
\* variable of that name.  videoPc: "idle", "generated" (before line 358),
\* "inserted" (before line 387), "returned", "thrown".  videoId is what
\* findRelevantYouTubeVideo returned, Null when it was not called or found
\* no video.
VARIABLES videoPc, aiText, generatedContent, videoId, videoCalls

videoVars == <<videoPc, aiText, generatedContent, videoId, videoCalls>>

MaxPieces == 4

videoPlaceholder ==
    <<"<", "!", "-", "-", " ", "Y", "O", "U", "T", "U", "B", "E", "_", "V",
      "I", "D", "E", "O", "_", "P", "L", "A", "C", "E", "H", "O", "L", "D",
      "E", "R", " ", "-", "-", ">">>

S_table_end == <<"<", "/", "t", "a", "b", "l", "e", ">">>
S_p_end == <<"<", "/", "p", ">">>

\* String.prototype.indexOf(search, from) and lastIndexOf(search, from), with
\* the positions of JavaScript (the first character is at 0); -1 for none
occurrencesOf(s, search) ==
    {i \in 0..(Len(s) - Len(search)) : SubSeq(s, i + 1, i + Len(search)) = search}

indexOf(s, search, from) ==
    LET found == {i \in occurrencesOf(s, search) : i >= from}
    IN  IF found = {} THEN -1 ELSE Min(found)

lastIndexOf(s, search, from) ==
    LET found == {i \in occurrencesOf(s, search) : i <= from}
    IN  IF found = {} THEN -1 ELSE Max(found)

\* s.slice(0, at) + text + s.slice(at)
insertAt(s, at, text) == SubSeq(s, 1, at) \o text \o SubSeq(s, at + 1, Len(s))

\* String.prototype.replace with a string pattern: the first occurrence only.
\* The replacements of the model hold no '$', so none of the patterns $&, $1
\* of the replacement string applies.
replace(s, search, replacement) ==
    LET at == indexOf(s, search, 0)
    IN  IF at = -1 THEN s
        ELSE SubSeq(s, 1, at) \o replacement \o SubSeq(s, at + Len(search) + 1, Len(s))

insertVideoPlaceholder_atBothEnds(content) ==
    videoPlaceholder \o content \o videoPlaceholder

\* lines 359-382
insertVideoPlaceholder(content) ==
    LET tableEndIndex == indexOf(content, S_table_end, 0)
        middleIndex == Len(content) \div 2
        afterMiddle == indexOf(content, S_p_end, middleIndex)
        insertIndex == IF afterMiddle = -1
                       THEN lastIndexOf(content, S_p_end, middleIndex)
                       ELSE afterMiddle
    IN  IF tableEndIndex # -1
        THEN insertAt(content, tableEndIndex + 8,
                      <<Newline, Newline>> \o videoPlaceholder \o <<Newline, Newline>>)
        ELSE IF insertIndex = -1
        THEN insertAt(content, middleIndex, <<Newline>> \o videoPlaceholder \o <<Newline>>)
        ELSE insertAt(content, insertIndex + 4,
                      <<Newline, Newline>> \o videoPlaceholder \o <<Newline, Newline>>)

\* ------------------------------------------------------------------------
\* youtubeApi.ts: findRelevantYouTubeVideo
\* ------------------------------------------------------------------------
\* s.split(/\s+/)
RECURSIVE splitWhitespace(_)
splitWhitespace(s) ==
    LET spaces == {i \in 1..Len(s) : s[i] \in SpaceChars}
    IN  IF spaces = {} THEN <<s>>
        ELSE LET rest == {i \in Min(spaces)..Len(s) : s[i] \notin SpaceChars}
             IN  <<SubSeq(s, 1, Min(spaces) - 1)>>
                 \o (IF rest = {} THEN << <<>> >>
                     ELSE splitWhitespace(SubSeq(s, Min(rest), Len(s))))

\* lines 36-41
blogTitleKeywords(blogTitle) ==
    LET kept == KeepOnly(toLowerCase(blogTitle), SlugChars \cup SpaceChars)
        words == splitWhitespace(kept)
        plain == [i \in 1..Len(words) |-> SelectSeq(words[i], LAMBDA c : c # Hyphen)]
        common == {<<"f", "r", "o", "m">>, <<"w", "i", "t", "h">>, <<"t", "h", "a", "t">>, <<"t",
                   "h", "i", "s">>, <<"o", "v", "e", "r">>, <<"w", "h", "a", "t">>, <<"y", "o",
                   "u", "r">>}
    IN  SelectSeq(plain, LAMBDA word : Len(word) > 3 /\ word \notin common)

\* what youtube.search.list gives: Throws, or the items of the response
Items(items) == [kind |-> "items", items |-> items]

isBetterMatch_orEqual(score, bestMatch) ==
    score > 0 /\ (bestMatch = Null \/ score >= bestMatch.score)

\* line 93; the scores of the model are the scores of the code doubled, so
\* that a matching query word is worth 1 and a matching keyword 2
isBetterMatch(score, bestMatch) ==
    score > 0 /\ (bestMatch = Null \/ score > bestMatch.score)

findRelevantYouTubeVideo_throwing(query, blogTitle, searchResponse) ==
    IF searchResponse.kind # "items" THEN Throws ELSE Null

\* lines 28-113; searchResponse is NoApiKey when YOUTUBE_API_KEY is not set
findRelevantYouTubeVideo(query, blogTitle, searchResponse) ==
    IF searchResponse.kind # "items" THEN Null
    ELSE
    LET items == searchResponse.items
        keywords == blogTitleKeywords(blogTitle)
        allQueryWords == splitWhitespace(toLowerCase(query))
        queryWords == SelectSeq(allQueryWords, LAMBDA qWord : Len(qWord) > 3)
        matches(words, videoTitleLower) ==
            Len(SelectSeq(words, LAMBDA w : occurrencesOf(videoTitleLower, w) # {}))
        scoreOf(item) ==
            LET videoTitleLower == toLowerCase(item.title)
            IN  (IF Len(keywords) > 0 THEN 2 * matches(keywords, videoTitleLower) ELSE 2)
                + matches(queryWords, videoTitleLower)
        usable(item) ==
            Len(item.videoId) > 0 /\ Len(item.title) > 0
        bestMatch[i \in 0..Len(items)] ==
            IF i = 0 THEN Null
            ELSE IF usable(items[i]) /\ isBetterMatch(scoreOf(items[i]), bestMatch[i - 1])
            THEN [videoId |-> items[i].videoId, score |-> scoreOf(items[i])]
            ELSE bestMatch[i - 1]
    IN  IF bestMatch[Len(items)] = Null THEN Null ELSE bestMatch[Len(items)].videoId

\* searchPc: "idle", "called", "returned"; searchArgs holds the arguments of
\* the call and the answer of the YouTube API, searchResult what the
\* function returned
VARIABLES searchPc, searchArgs, searchResult

searchVars == <<searchPc, searchArgs, searchResult>>

MaxItems == 3

\* items of a search response; an item without id or without title has the
\* empty string there (line 70 tests both for truthiness)
VideoItems ==
    {[videoId |-> <<"a", "1">>, title |-> <<"Q", "u", "i", "t", " ", "S", "u", "g", "a", "r", " ", "K", "e", "t", "o">>],
     [videoId |-> <<"b", "2">>, title |-> <<"S", "U", "G", "A", "R">>],
     [videoId |-> <<"c", "3">>, title |-> <<"S", "u", "g", "a", "r", " ", "D", "e", "t", "o", "x">>],
     [videoId |-> <<>>, title |-> <<"Q", "u", "i", "t", " ", "S", "u", "g", "a", "r", " ", "K", "e", "t", "o", " ", "S", "u", "g", "a", "r", "f", "r", "e", "e">>],
     [videoId |-> <<"e", "5">>, title |-> <<"C", "a", "t", "s">>],
     [videoId |-> <<"f", "6">>, title |-> <<>>]}

SearchIdle == searchPc = "idle" /\ searchArgs = Null /\ searchResult = Null

SearchInit ==
    /\ searchPc = "called"
    /\ searchResult = Null
    /\ \E query \in {<<"K", "e", "t", "o", " ", "s", "u", "g", "a", "r">>, <<"a">>},
          blogTitle \in {<<"Q", "u", "i", "t", " ", "S", "u", "g", "a", "r", " ", "N", "o", "w", "!">>,
                         <<"W", "h", "y">>,
                         <<"F", "r", "o", "m", " ", "S", "u", "g", "a", "r", "-", "F", "r", "e", "e">>},
          searchResponse \in {NoApiKey, Throws}
                \cup {Items(items) : items \in StringsUpTo(VideoItems, MaxItems)} :
        searchArgs = [query |-> query, blogTitle |-> blogTitle,
                      searchResponse |-> searchResponse]

callFindRelevantYouTubeVideo ==
    /\ searchPc = "called"
    /\ searchPc' = "returned"
    /\ searchResult' = findRelevantYouTubeVideo(searchArgs.query, searchArgs.blogTitle,
                                                searchArgs.searchResponse)
    /\ UNCHANGED searchArgs

\* youtubeApi.ts 120-139; of the markup, the iframe and its src are kept
generateYoutubeEmbedCode(id) ==
    <<"<", "i", "f", "r", "a", "m", "e", " ", "s", "r", "c", "=",
      DoubleQuote, "h", "t", "t", "p", "s", ":", "/", "/", "w", "w", "w",
      ".", "y", "o", "u", "t", "u", "b", "e", ".", "c", "o", "m", "/", "e",
      "m", "b", "e", "d", "/">>
    \o id \o <<DoubleQuote, ">", "<", "/", "i", "f", "r", "a", "m", "e", ">">>

\* texts of the AI: up to MaxPieces pieces, each a closing table tag, a closing
\* p tag, an opening p tag with a letter, or a letter
ContentPieces == {S_table_end, S_p_end, <<"<", "p", ">", "w">>, <<"x">>}

VideoIdle ==
    /\ videoPc = "idle"
    /\ aiText = <<>>
    /\ generatedContent = <<>>
    /\ videoId = Null
    /\ videoCalls = Null

VideoInit ==
    /\ videoPc = "generated"
    /\ \E pieces \in StringsUpTo(ContentPieces, MaxPieces) : aiText = Join(pieces, <<>>)
    /\ generatedContent = aiText
    /\ videoId = Null
    /\ videoCalls = Null

\* lines 358-382
placeVideoPlaceholder ==
    /\ videoPc = "generated"
    /\ generatedContent' = insertVideoPlaceholder(generatedContent)
    /\ videoPc' = "inserted"
    /\ UNCHANGED <<aiText, videoId, videoCalls>>

\* lines 384-423: generateYouTubeSearchQuery throws (no key, response not
\* OK), or returns the trimmed answer, which can be empty; with a query,
\* findRelevantYouTubeVideo returns a video id or null; an error thrown by
\* either call is caught at line 419, which throws.  videoCalls keeps the
\* outcome of the query request and the answer of the YouTube API (Null
\* when there was no search).
embedVideo ==
    /\ videoPc = "inserted"
    /\ \E searchQuery \in {Throws, Answer(<<>>), Answer(<<"K", "e", "t", "o", " ", "s", "u", "g", "a", "r">>)},
          searchResponse \in {NoApiKey, Throws, Items(<<>>),
                              Items(<<[videoId |-> <<"e", "5">>, title |-> <<"C", "a", "t", "s">>],
                                      [videoId |-> <<"a", "1">>, title |-> <<"Q", "u", "i", "t", " ", "S", "u", "g", "a", "r", " ", "K", "e", "t", "o">>]>>)} :
        LET searched == searchQuery # Throws /\ Len(searchQuery.text) > 0
            found == IF searched
                     THEN findRelevantYouTubeVideo(searchQuery.text, <<"Q", "u", "i", "t", " ", "S", "u", "g", "a", "r", " ", "N", "o", "w", "!">>,
                                                   searchResponse)
                     ELSE Null
        IN  /\ videoCalls' = [query |-> searchQuery,
                              search |-> IF searched THEN searchResponse ELSE Null]
            /\ IF searchQuery = Throws \/ found = Throws
               THEN /\ videoPc' = "thrown"
                    /\ UNCHANGED <<generatedContent, videoId>>
               ELSE /\ videoId' = found
                    /\ generatedContent' =
                           IF found # Null
                           THEN replace(generatedContent, videoPlaceholder,
                                        generateYoutubeEmbedCode(found))
                           ELSE replace(generatedContent, videoPlaceholder, <<>>)
                    /\ videoPc' = "returned"
    /\ UNCHANGED aiText

\* ------------------------------------------------------------------------
\* generate-inline-blog-images.ts: processBlogFile
\* ------------------------------------------------------------------------
\* The content of a post is a sequence of parts: [kind |-> "text"], a
\* placeholder div [kind |-> "placeholder", description |-> d], or the image
\* block [kind |-> "image", description |-> d, name |-> n] of inline-<n>.jpg.
\* inlinePc: "idle", "start", "images" (in the loop of line 100), "write"
\* (after the loop), "done".  blogContent is the content of the file when it
\* is read.  placeholdersToProcess holds, beside the description that the
\* code keeps, the position of the placeholder in the content (which the
\* code does not keep).  inlineAttempts[i] lists the outcomes of the
\* attempts made for the i-th selected placeholder.
VARIABLES inlinePc, blogContent, placeholdersToProcess, updatedContent,
          inlineAttempts, generatedCount, failedCount, fileRewritten

inlineVars == <<inlinePc, blogContent, placeholdersToProcess, updatedContent,
                inlineAttempts, generatedCount, failedCount, fileRewritten>>

MaxParts == 3

ThreeAttempts == 2 + 1

\* line 111
inlineMaxAttempts == 2

\* lines 31-45: the placeholders with a description of at least one
\* character, in the order of the content
extractImagePlaceholders(content) ==
    LET at == {i \in 1..Len(content) :
                  content[i].kind = "placeholder" /\ content[i].description # ""}
        nth[k \in 1..Cardinality(at)] ==
            CHOOSE i \in at : Cardinality({j \in at : j < i}) = k - 1
    IN  [k \in 1..Cardinality(at) |->
            [description |-> content[nth[k]].description, position |-> nth[k]]]

\* lines 136-144: updatedContent.replace(placeholderHtml, imageTag) puts the
\* image block in the place of the first occurrence of the placeholder div
\* of that description
replacePlaceholder(content, placeholder, generated) ==
    LET same == {i \in 1..Len(content) :
                    /\ content[i].kind = "placeholder"
                    /\ content[i].description = placeholder.description}
    IN  [i \in 1..Len(content) |->
            IF same # {} /\ i = Min(same)
            THEN [kind |-> "image", description |-> placeholder.description,
                  name |-> generated + 1]
            ELSE content[i]]

InlineIdle ==
    /\ inlinePc = "idle"
    /\ blogContent = <<>>
    /\ placeholdersToProcess = <<>>
    /\ updatedContent = <<>>
    /\ inlineAttempts = <<>>
    /\ generatedCount = 0
    /\ failedCount = 0
    /\ fileRewritten = FALSE

InlineInit ==
    /\ inlinePc = "start"
    /\ blogContent \in StringsUpTo({[kind |-> "text"],
                                    [kind |-> "placeholder", description |-> "a"],
                                    [kind |-> "placeholder", description |-> "b"]},
                                   MaxParts)
    /\ placeholdersToProcess = <<>>
    /\ updatedContent = <<>>
    /\ inlineAttempts = <<>>
    /\ generatedCount = 0
    /\ failedCount = 0
    /\ fileRewritten = FALSE

\* lines 50-98: the file is read (an error ends the function, line 205), the
\* placeholders are extracted, and 1 to 3 of them, no more than were found,
\* are taken from the list shuffled by sort(() => 0.5 - Math.random())
startProcessBlogFile ==
    /\ inlinePc = "start"
    /\ \E fileRead \in BOOLEAN :
        LET allPlaceholders == extractImagePlaceholders(blogContent)
            numPlaceholdersFound == Len(allPlaceholders)
        IN  IF ~fileRead \/ numPlaceholdersFound = 0
            THEN /\ inlinePc' = "done"
                 /\ UNCHANGED <<placeholdersToProcess, updatedContent, inlineAttempts>>
            ELSE \E random \in 1..3 :
                 LET numToGenerate == Min({numPlaceholdersFound, random})
                 IN  \E shuffled \in [1..numToGenerate -> 1..numPlaceholdersFound] :
                        /\ \A i, j \in 1..numToGenerate : i # j => shuffled[i] # shuffled[j]
                        /\ placeholdersToProcess' =
                               [i \in 1..numToGenerate |-> allPlaceholders[shuffled[i]]]
                        /\ updatedContent' = blogContent
                        /\ inlineAttempts' = <<<<>>>>
                        /\ inlinePc' = "images"
    /\ UNCHANGED <<blogContent, generatedCount, failedCount, fileRewritten>>

\* lines 107-181: one attempt for the current placeholder.  generateBlogImage
\* throws, or the download or the saving of the image throws, or the image
\* is saved and the placeholder replaced.  After the last attempt of a
\* placeholder the loop of line 100 goes to the next one.
inlineImageAttempt ==
    /\ inlinePc = "images"
    /\ LET i == Len(inlineAttempts)
           attempt == Len(inlineAttempts[i]) + 1
           next(ended) ==
               IF ~ended THEN inlinePc' = "images"
               ELSE inlinePc' = IF i < Len(placeholdersToProcess) THEN "images" ELSE "write"
           recorded(outcome, ended) ==
               LET tried == [inlineAttempts EXCEPT ![i] = Append(@, outcome)]
               IN  IF ended /\ i < Len(placeholdersToProcess)
                   THEN Append(tried, <<>>) ELSE tried
       IN  \E outcome \in {"generationFailed", "downloadFailed", "saved"} :
            IF outcome = "saved"
            THEN /\ updatedContent' = replacePlaceholder(updatedContent,
                                          placeholdersToProcess[i], generatedCount)
                 /\ generatedCount' = generatedCount + 1
                 /\ inlineAttempts' = recorded(outcome, TRUE)
                 /\ next(TRUE)
                 /\ UNCHANGED failedCount
            ELSE /\ failedCount' = IF attempt = inlineMaxAttempts
                                   THEN failedCount + 1 ELSE failedCount
                 /\ inlineAttempts' = recorded(outcome, attempt = inlineMaxAttempts)
                 /\ next(attempt = inlineMaxAttempts)
                 /\ UNCHANGED <<updatedContent, generatedCount>>
    /\ UNCHANGED <<blogContent, placeholdersToProcess, fileRewritten>>

\* lines 192-207: the file is written again only with a generated image; an
\* error of the write is caught at line 205
finishProcessBlogFile ==
    /\ inlinePc = "write"
    /\ inlinePc' = "done"
    /\ \E written \in BOOLEAN : fileRewritten' = (generatedCount > 0 /\ written)
    /\ UNCHANGED <<blogContent, placeholdersToProcess, updatedContent, inlineAttempts,
                   generatedCount, failedCount>>

\* ------------------------------------------------------------------------
\* Specifications
\* ------------------------------------------------------------------------
vars == <<slugVars, topicVars, indexVars, metaVars, batchVars, imageVars, fileVars,
         pageVars, videoVars, searchVars, inlineVars>>

InitTopics == TopicInit /\ SlugIdle /\ IndexIdle /\ MetaIdle /\ BatchIdle /\ ImageIdle /\ FileIdle /\ PageIdle /\ VideoIdle /\ SearchIdle /\ InlineIdle
NextTopics ==
    \/ startTopic /\ UNCHANGED <<slugVars, indexVars, metaVars, batchVars, imageVars, fileVars, pageVars, videoVars, searchVars, inlineVars>>
    \/ rejectTopic /\ UNCHANGED <<slugVars, indexVars, metaVars, batchVars, imageVars, fileVars, pageVars, videoVars, searchVars, inlineVars>>
    \/ acceptTopic /\ UNCHANGED <<slugVars, indexVars, metaVars, batchVars, imageVars, fileVars, pageVars, videoVars, searchVars, inlineVars>>
    \/ topicDone /\ UNCHANGED <<slugVars, indexVars, metaVars, batchVars, imageVars, fileVars, pageVars, videoVars, searchVars, inlineVars>>
    \/ giveUp /\ UNCHANGED <<slugVars, indexVars, metaVars, batchVars, imageVars, fileVars, pageVars, videoVars, searchVars, inlineVars>>
    \/ returnTopics /\ UNCHANGED <<slugVars, indexVars, metaVars, batchVars, imageVars, fileVars, pageVars, videoVars, searchVars, inlineVars>>
SpecTopics == InitTopics /\ [][NextTopics]_vars

InitSlug == SlugInit /\ TopicIdle /\ IndexIdle /\ MetaIdle /\ BatchIdle /\ ImageIdle /\ FileIdle /\ PageIdle /\ VideoIdle /\ SearchIdle /\ InlineIdle
NextSlug == callGenerateAISlug /\ UNCHANGED <<topicVars, indexVars, metaVars, batchVars, imageVars, fileVars, pageVars, videoVars, searchVars, inlineVars>>
SpecSlug == InitSlug /\ [][NextSlug]_vars

InitIndex == IndexInit /\ SlugIdle /\ TopicIdle /\ MetaIdle /\ BatchIdle /\ ImageIdle /\ FileIdle /\ PageIdle /\ VideoIdle /\ SearchIdle /\ InlineIdle
NextIndex ==
    \/ addEntry /\ UNCHANGED <<slugVars, topicVars, metaVars, batchVars, imageVars, fileVars, pageVars, videoVars, searchVars, inlineVars>>
    \/ rebuildIndex /\ UNCHANGED <<slugVars, topicVars, metaVars, batchVars, imageVars, fileVars, pageVars, videoVars, searchVars, inlineVars>>
SpecIndex == InitIndex /\ [][NextIndex]_vars

InitMeta == MetaInit /\ SlugIdle /\ TopicIdle /\ IndexIdle /\ BatchIdle /\ ImageIdle /\ FileIdle /\ PageIdle /\ VideoIdle /\ SearchIdle /\ InlineIdle
NextMeta == callGenerateMetaDescription /\ UNCHANGED <<slugVars, topicVars, indexVars, batchVars, imageVars, fileVars, pageVars, videoVars, searchVars, inlineVars>>
SpecMeta == InitMeta /\ [][NextMeta]_vars

\* the daily batch, day after day
Init == BatchInit /\ SlugIdle /\ TopicIdle /\ IndexIdle /\ MetaIdle /\ PageIdle /\ VideoIdle /\ SearchIdle /\ InlineIdle
Next ==
    \/ startBlog /\ UNCHANGED <<slugVars, topicVars, indexVars, metaVars, fileVars, pageVars, videoVars, searchVars, inlineVars>>
    \/ contentAttempt /\ UNCHANGED <<slugVars, topicVars, indexVars, metaVars, fileVars, pageVars, videoVars, searchVars, inlineVars>>
    \/ prepareBlog /\ UNCHANGED <<slugVars, topicVars, indexVars, metaVars, fileVars, pageVars, videoVars, searchVars, inlineVars>>
    \/ imageAttempt /\ UNCHANGED <<slugVars, topicVars, indexVars, metaVars, fileVars, pageVars, videoVars, searchVars, inlineVars>>
    \/ downloadImage /\ UNCHANGED <<slugVars, topicVars, indexVars, metaVars, fileVars, pageVars, videoVars, searchVars, inlineVars>>
    \/ nextRun /\ UNCHANGED <<slugVars, topicVars, indexVars, metaVars, fileVars, pageVars, videoVars, searchVars, inlineVars>>
    \/ finishBatch /\ UNCHANGED <<slugVars, topicVars, indexVars, metaVars, pageVars, videoVars, searchVars, inlineVars>>

\* generateImage, called with any retryCount
InitImage ==
    /\ imageRetryCount \in 1..MaxRetryCount
    /\ imageResponses = <<>>
    /\ imageDelays = <<>>
    /\ imageResult = Pending
    /\ BatchIdle /\ FileIdle /\ SlugIdle /\ TopicIdle /\ IndexIdle /\ MetaIdle /\ PageIdle /\ VideoIdle /\ SearchIdle /\ InlineIdle
NextImage ==
    /\ generateImageAttempt(ImageFailures)
    /\ UNCHANGED <<slugVars, topicVars, indexVars, metaVars, batchVars, fileVars, pageVars, videoVars, searchVars, inlineVars>>
SpecImage == InitImage /\ [][NextImage]_vars

\* updateSitemap and updateLlmsTxt, called on any of some files
InitUpdaters ==
    /\ sitemapContent \in
           {Null,
            <<Part("open", ""), Part("text", "")>>,
            <<Part("open", ""), Part("close", "")>>,
            <<Part("open", ""), Part("url", "a"), Part("close", ""), Part("text", "")>>}
    /\ llmsContent \in
           {Null,
            <<Part("text", ""), Part("heading", "")>>,
            <<Part("blogPosts", ""), Part("link", "a")>>,
            <<Part("heading", ""), Part("link", "a"), Part("blogPosts", ""),
              Part("text", ""), Part("heading", ""), Part("text", "")>>}
    /\ BatchIdle /\ ImageIdle /\ SlugIdle /\ TopicIdle /\ IndexIdle /\ MetaIdle /\ PageIdle /\ VideoIdle /\ SearchIdle /\ InlineIdle
NextUpdaters ==
    \/ callUpdateSitemap
            /\ UNCHANGED <<slugVars, topicVars, indexVars, metaVars, batchVars, imageVars, pageVars, videoVars, searchVars, inlineVars>>
    \/ callUpdateLlmsTxt
            /\ UNCHANGED <<slugVars, topicVars, indexVars, metaVars, batchVars, imageVars, pageVars, videoVars, searchVars, inlineVars>>
SpecUpdaters == InitUpdaters /\ [][NextUpdaters]_vars

\* the blog page, from its mounting
InitPage ==
    /\ PageInit /\ VideoIdle
    /\ BatchIdle /\ ImageIdle /\ FileIdle /\ SlugIdle /\ TopicIdle /\ IndexIdle /\ MetaIdle /\ SearchIdle /\ InlineIdle
NextPage ==
    \/ startFetchBlogPosts
        /\ UNCHANGED <<slugVars, topicVars, indexVars, metaVars, batchVars, imageVars,
                       fileVars, videoVars, searchVars, inlineVars>>
    \/ fetchPotentialPath
        /\ UNCHANGED <<slugVars, topicVars, indexVars, metaVars, batchVars, imageVars,
                       fileVars, videoVars, searchVars, inlineVars>>
SpecPage == InitPage /\ [][NextPage]_vars

\* the video of generateBlogContent, for every text of the AI
InitVideo ==
    /\ VideoInit /\ PageIdle
    /\ BatchIdle /\ ImageIdle /\ FileIdle /\ SlugIdle /\ TopicIdle /\ IndexIdle /\ MetaIdle /\ SearchIdle /\ InlineIdle
NextVideo ==
    \/ placeVideoPlaceholder
        /\ UNCHANGED <<slugVars, topicVars, indexVars, metaVars, batchVars, imageVars,
                       fileVars, pageVars, searchVars, inlineVars>>
    \/ embedVideo
        /\ UNCHANGED <<slugVars, topicVars, indexVars, metaVars, batchVars, imageVars,
                       fileVars, pageVars, searchVars, inlineVars>>
SpecVideo == InitVideo /\ [][NextVideo]_vars

\* findRelevantYouTubeVideo, for every query, title and answer of the API
InitSearch ==
    /\ SearchInit /\ VideoIdle /\ PageIdle
    /\ BatchIdle /\ ImageIdle /\ FileIdle /\ SlugIdle /\ TopicIdle /\ IndexIdle /\ MetaIdle /\ InlineIdle
NextSearch ==
    /\ callFindRelevantYouTubeVideo
    /\ UNCHANGED <<slugVars, topicVars, indexVars, metaVars, batchVars, imageVars,
                   fileVars, pageVars, videoVars, inlineVars>>
SpecSearch == InitSearch /\ [][NextSearch]_vars

\* processBlogFile, for every content of a post
InitInline ==
    /\ InlineInit /\ SearchIdle /\ VideoIdle /\ PageIdle
    /\ BatchIdle /\ ImageIdle /\ FileIdle /\ SlugIdle /\ TopicIdle /\ IndexIdle /\ MetaIdle
NextInline ==
    \/ startProcessBlogFile
        /\ UNCHANGED <<slugVars, topicVars, indexVars, metaVars, batchVars, imageVars,
                       fileVars, pageVars, videoVars, searchVars>>
    \/ inlineImageAttempt
        /\ UNCHANGED <<slugVars, topicVars, indexVars, metaVars, batchVars, imageVars,
                       fileVars, pageVars, videoVars, searchVars>>
    \/ finishProcessBlogFile
        /\ UNCHANGED <<slugVars, topicVars, indexVars, metaVars, batchVars, imageVars,
                       fileVars, pageVars, videoVars, searchVars>>
SpecInline == InitInline /\ [][NextInline]_vars

Spec == Init /\ [][Next]_vars

\* ------------------------------------------------------------------------
\* C2: every slug returned by generateAISlug matches [a-z0-9-]+ and has no
\* leading or trailing hyphen; an answer of the AI that fails these checks
\* is replaced by generateSlug(title).
\* ------------------------------------------------------------------------
MatchesSlugPattern(s) ==
    /\ Len(s) > 0
    /\ \A i \in 1..Len(s) : s[i] \in SlugChars
    /\ s[1] # Hyphen
    /\ s[Len(s)] # Hyphen

C2_SlugWellFormed ==
    slugPc = "done" =>
        /\ MatchesSlugPattern(slugResult)
        /\ (slugOutcome.kind = "text" /\ ~MatchesSlugPattern(cleanAISlug(slugOutcome.text))
                => slugResult = generateSlug(slugTitle))

\* ------------------------------------------------------------------------
\* C1: in every batch returned by generateUniqueTopics no two topics have
\* the same slug, no slug is empty, and no slug is one of the slugs read
\* from the existing index.json, whatever the AI answered.
\* ------------------------------------------------------------------------
C1_ReturnedSlugsUnique ==
    topicPc = "done" =>
        /\ \A i, j \in 1..Len(topics) : i # j => topics[i].slug # topics[j].slug
        /\ \A i \in 1..Len(topics) :
            /\ Len(topics[i].slug) > 0
            /\ topics[i].slug \notin allPublishedSlugs

\* a returned batch of two topics, made with answers of the AI, whose last
\* topic was accepted after at least one rejected candidate
C1_Witness ==
    /\ topicPc = "done"
    /\ apiKeySet
    /\ Len(topics) >= 2
    /\ topicGenerated /\ attempts >= 2

\* ------------------------------------------------------------------------
\* C3: generateUniqueTopics terminates: every step of it decreases a
\* natural-number measure and every call of generateBlogTopic returns a
\* candidate, so that a step is possible until it returns; no slot
\* sees more than 5 calls of generateBlogTopic; and when the 5 candidates of
\* a slot are all rejected the next step returns the topics accepted so far,
\* which are fewer than count.
\* ------------------------------------------------------------------------
C3_Remaining == IF count > Len(topics) THEN count - Len(topics) ELSE 0

C3_Variant ==
    CASE topicPc = "outer" -> 1 + 10 * C3_Remaining
      [] topicPc = "inner" /\ topicGenerated -> 2 + 10 * C3_Remaining
      [] topicPc = "inner" /\ ~topicGenerated -> 10 * C3_Remaining - attempts
      [] OTHER -> 0

C3_SlotExhausted == topicPc = "inner" /\ ~topicGenerated /\ attempts = 5

C3_Terminates ==
    /\ [](/\ attempts <= 5
          /\ C3_Variant >= 0
          /\ topicPc = "inner" /\ ~topicGenerated /\ attempts < 5
                => candidateTopics # {}
          /\ topicPc = "done" =>
                \/ Len(topics) = count
                \/ Len(topics) < count /\ attempts = 5 /\ ~topicGenerated)
    /\ [][/\ C3_Variant' < C3_Variant
          /\ C3_SlotExhausted => topicPc' = "done" /\ topics' = topics]_vars

\* a batch stopped by a slot whose 5 candidates were all rejected, after a
\* first topic had been accepted
C3_Witness ==
    /\ topicPc = "done"
    /\ attempts = 5 /\ ~topicGenerated
    /\ Len(topics) >= 1 /\ Len(topics) < count

\* ------------------------------------------------------------------------
\* Observations of the runs of rebuild-index.js
\* ------------------------------------------------------------------------
\* the post files of a listing: everything but index.json
postFiles(listing) == SelectSeq(listing, LAMBDA e : e.name # N_index_json)

\* the posts of the latest run as they were read, before related posts and
\* tags were computed, in the order of the index
readPosts == sortByPublishDate(scanPosts(runs[Len(runs)].rootItems))

sharesTag(p, q) ==
    /\ p.tags.isArray /\ q.tags.isArray
    /\ Range(p.tags.items) \cap Range(q.tags.items) # {}

sameCategory(p, q) == p.category # "" /\ p.category = q.category

\* the posts that are related to the i-th of the posts
candidatesOf(posts, i) ==
    {j \in 1..Len(posts) :
        /\ posts[j].slug # posts[i].slug
        /\ (sharesTag(posts[i], posts[j]) \/ sameCategory(posts[i], posts[j]))}

\* ------------------------------------------------------------------------
\* C4: after a run of rebuild-index.js, every post of the written index has
\* at most 4 relatedPostSlugs, none of them the post's own slug.
\* ------------------------------------------------------------------------
C4_RelatedBounded ==
    index # Null =>
        \A i \in 1..Len(index.posts) :
            /\ Len(index.posts[i].relatedPostSlugs) <= 4
            /\ index.posts[i].slug \notin Range(index.posts[i].relatedPostSlugs)

\* an index with a post that has more than 4 related candidates, and with
\* two posts of the same slug that share a tag
C4_Witness ==
    /\ index # Null
    /\ LET read == readPosts
       IN  /\ \E i \in 1..Len(read) :
                /\ Cardinality(candidatesOf(read, i)) > 4
                /\ Len(index.posts[i].relatedPostSlugs) = 4
           /\ \E i, j \in 1..Len(read) :
                i # j /\ read[i].slug = read[j].slug /\ sharesTag(read[i], read[j])

C7_RelatedListed ==
    index # Null =>
        /\ LET read == readPosts
           IN  \A i, j \in 1..Len(read) :
                (/\ read[i].slug # read[j].slug
                 /\ sharesTag(read[i], read[j]) \/ sameCategory(read[i], read[j])
                 /\ Cardinality(candidatesOf(read, j)) <= 4)
                    => read[i].slug \in Range(index.posts[j].relatedPostSlugs)
        /\ postFiles(runs[Len(runs)].rootItems) \in {<<E_A, E_B>>, <<E_B, E_A>>}
            => /\ index.posts[1].slug = "a" /\ index.posts[1].relatedPostSlugs = <<"b">>
               /\ index.posts[2].slug = "b" /\ index.posts[2].relatedPostSlugs = <<"a">>

\* the index of the two posts a and b
C7_Witness ==
    /\ index # Null
    /\ postFiles(runs[Len(runs)].rootItems) = <<E_A, E_B>>
    /\ Len(index.posts) = 2

\* ------------------------------------------------------------------------
\* C5: after a run of rebuild-index.js the tags left in the written index
\* are among the 10 most frequent tags of the posts as they were read: at
\* most 10 distinct tags are left, each occurred in the posts read, and no
\* tag that was removed occurred more often than a tag that was left.
\* ------------------------------------------------------------------------
C5_occurrences(occ, tag) == Cardinality({k \in 1..Len(occ) : occ[k] = tag})

C5_TopTagsKept ==
    index # Null =>
        LET occ == tagOccurrences(readPosts)
            left == Range(tagOccurrences(index.posts))
        IN  /\ Cardinality(left) <= 10
            /\ left \subseteq Range(occ)
            /\ \A l \in left : \A r \in Range(occ) \ left :
                   C5_occurrences(occ, r) <= C5_occurrences(occ, l)

\* ------------------------------------------------------------------------
\* C8: generateMetaDescription never returns more than 155 characters: an
\* answer that, trimmed and with its newlines replaced, is longer than 155
\* characters is returned as its first 152 characters followed by "...",
\* 155 characters in all, and one of 50 to 155 characters is returned as it
\* is.
\* ------------------------------------------------------------------------
C8_cleaned ==
    LET trimmed == trim(metaOutcome.text)
    IN  [i \in 1..Len(trimmed) |-> IF trimmed[i] = Newline THEN " " ELSE trimmed[i]]

C8_MetaDescriptionLength ==
    metaPc = "done" =>
        /\ metaResult.kind = "returned" => Len(metaResult.value) <= 155
        /\ metaOutcome.kind = "text" =>
            /\ Len(C8_cleaned) > 155 =>
                /\ metaResult.kind = "returned"
                /\ Len(metaResult.value) = 155
                /\ SubSeq(metaResult.value, 1, 152) = SubSeq(C8_cleaned, 1, 152)
                /\ SubSeq(metaResult.value, 153, 155) = <<".", ".", ".">>
            /\ Len(C8_cleaned) >= 50 /\ Len(C8_cleaned) <= 155 =>
                metaResult = Returned(C8_cleaned)

\* an answer of 156 characters after the clean-up, with a newline among
\* them, returned as 155 characters
C8_Witness ==
    /\ metaPc = "done"
    /\ metaOutcome.kind = "text"
    /\ Len(C8_cleaned) = 156
    /\ \E i \in 1..Len(trim(metaOutcome.text)) : trim(metaOutcome.text)[i] = Newline
    /\ metaResult.kind = "returned" /\ Len(metaResult.value) = 155


\* ------------------------------------------------------------------------
\* C9: when the image API fails on all 3 attempts, generateBlog still writes
\* a post record without featuredImage and returns the slug of the topic,
\* which counts as a success
\* ------------------------------------------------------------------------
C9_ImageFailureStillWrites ==
    (/\ batchPc = "loop"
     /\ Len(imageResponses) = retryCount
     /\ \A i \in 1..Len(imageResponses) : imageResponses[i] \in ImageFailures)
    => /\ generatedSlugs # <<>>
       /\ generatedSlugs[Len(generatedSlugs)] = topicsToProcess[topicIndex - 1]
       /\ newBlogFile # Null
       /\ newBlogFile.slug = topicsToProcess[topicIndex - 1]
       /\ newBlogFile.featuredImage = "none"

\* ------------------------------------------------------------------------
\* C10: when the content call answers with a non-OK status on all 3 attempts
\* for a topic, the batch skips the topic (no post file, no slug), counts
\* exactly one failure for it and goes on with the next topic: the loop is
\* left only after every topic was counted as a success or as a failure
\* ------------------------------------------------------------------------
C10_ContentFailureCounted ==
    /\ [](batchPc \in {"loop", "finished"}
          => failedBlogs + Len(generatedSlugs) = topicIndex - 1)
    /\ [](batchPc = "finished" => topicIndex = Len(topicsToProcess) + 1)
    /\ [][(/\ batchPc = "content"
           /\ Len(contentResponses') = maxAttempts
           /\ \A i \in 1..maxAttempts : contentResponses'[i] = "nonOk")
          => /\ failedBlogs' = failedBlogs + 1
             /\ topicIndex' = topicIndex + 1
             /\ batchPc' = "loop"
             /\ generatedSlugs' = generatedSlugs
             /\ blogFiles' = blogFiles
             /\ exitCode' = -1]_vars

\* the first of two topics has just failed three times; the second is next
C10_Witness ==
    /\ batchPc = "loop"
    /\ contentResponses = <<"nonOk", "nonOk", "nonOk">>
    /\ topicIndex = 2
    /\ topicIndex <= Len(topicsToProcess)
    /\ failedBlogs = 1
    /\ exitCode = -1

\* ------------------------------------------------------------------------
\* C11: main ends with a non-zero status only if every topic of the batch
\* failed: once a topic has succeeded the status is 0
\* ------------------------------------------------------------------------
C11_ExitOnlyIfAllFailed ==
    (batchPc = "finished" /\ exitCode # 0) => generatedSlugs = <<>>

\* ------------------------------------------------------------------------
\* C12: a failed meta description call for a topic aborts its post:
\* generateBlog returns null, no post is recorded for the topic, the failure
\* is counted
\* ------------------------------------------------------------------------
C12_MetaFailureAborts ==
    (batchPc = "loop" /\ today > 0 /\ seoMetaDescription = "topic")
    => /\ newBlogFile = Null
       /\ topicsToProcess[topicIndex - 1] \notin Range(generatedSlugs)
       /\ failedBlogs > 0

\* ------------------------------------------------------------------------
\* C13: generateBlogContent sends the content request at most 3 times and
\* never after an OK response; it has waited 5000 ms once for each failed
\* attempt but the third; a third failed attempt makes it throw, and it
\* returns only after an OK response
\* ------------------------------------------------------------------------
C13_ContentRetries ==
    LET n == Len(contentResponses)
        failed == {i \in 1..n : contentResponses[i] # "ok"}
    IN  /\ n <= 3
        /\ \A i \in 1..n : contentResponses[i] = "ok" => i = n
        /\ contentDelays = [i \in 1..Cardinality(failed \ {3}) |-> 5000]
        /\ Cardinality(failed) = 3 => contentResult = Thrown
        /\ contentResult.kind = "returned" => n >= 1 /\ contentResponses[n] = "ok"
        /\ (batchPc = "content" /\ n > 0) => Cardinality(failed) = n /\ n < 3

\* a non-OK status, a network error and a timeout, then the error
C13_Witness ==
    /\ contentResponses = <<"nonOk", "fetchError", "abort">>
    /\ contentDelays = <<5000, 5000>>
    /\ contentResult = Thrown
    /\ batchPc = "loop"

\* ------------------------------------------------------------------------
\* C14: generateImage calls the API at most retryCount times and never after
\* a success; after the failed attempt k < retryCount it has waited
\* min(1000 * 2^(k-1), 10000) ms, and nothing after the last attempt; after
\* retryCount failures it throws the last error, and it returns only after
\* a success
\* ------------------------------------------------------------------------
C14_ImageBackoff ==
    LET n == Len(imageResponses)
        failed == {k \in 1..n : imageResponses[k] \in ImageFailures}
    IN  /\ n <= imageRetryCount
        /\ \A k \in 1..n : imageResponses[k] \notin ImageFailures => k = n
        /\ imageDelays = [k \in 1..Cardinality(failed \ {imageRetryCount}) |->
                             IF 1000 * 2 ^ (k - 1) < 10000 THEN 1000 * 2 ^ (k - 1)
                             ELSE 10000]
        /\ (n > 0 /\ Cardinality(failed) = imageRetryCount)
               => imageResult = [kind |-> "thrown", error |-> imageResponses[n]]
        /\ imageResult.kind = "returned"
               => n >= 1 /\ imageResponses[n] \notin ImageFailures
        /\ imageResult = Pending => Cardinality(failed) = n /\ (n < imageRetryCount \/ n = 0)

\* six failed attempts of all four kinds: the waits reach the ceiling
C14_Witness ==
    /\ imageRetryCount = 6
    /\ Len(imageResponses) = 6
    /\ {"nonOk", "emptyBody", "html", "noData"} \subseteq Range(imageResponses)
    /\ imageDelays = <<1000, 2000, 4000, 8000, 10000>>
    /\ imageResult = [kind |-> "thrown", error |-> "noData"]

\* ------------------------------------------------------------------------
\* C15: updateSitemap and updateLlmsTxt never insert the URL of a slug a
\* second time: in files that held the URL of each slug at most once, the
\* URL of each slug is there at most once after any sequence of calls
\* ------------------------------------------------------------------------
C15_SlugUrlAtMostOnce ==
    \A slug \in {"a", "b"} :
        /\ sitemapContent # Null =>
            Cardinality({i \in 1..Len(sitemapContent) :
                            sitemapContent[i] = Part("url", slug)}) <= 1
        /\ llmsContent # Null =>
            Cardinality({i \in 1..Len(llmsContent) :
                            llmsContent[i] = Part("link", slug)}) <= 1

\* ------------------------------------------------------------------------
\* C16: after any sequence of daily runs, whatever the source of their
\* topics, no two posts of the persisted index have the same slug
\* ------------------------------------------------------------------------
C16_IndexSlugsUnique ==
    \A i, j \in 1..Len(persistedIndex) :
        i # j => persistedIndex[i].slug # persistedIndex[j].slug

\* ------------------------------------------------------------------------
\* C17: generateBlogTopic returns a topic whatever the AI calls do.  Without
\* the API key or with a failed title call the title is the fallback text
\* made of the selected keywords and the category; with a failed slug call
\* or an answer that is empty, shorter than 3 characters or without a
\* hyphen the slug is generateSlug of the title.  generateUniqueTopics
\* returns fewer topics than asked only after 5 rejected candidates.
\* ------------------------------------------------------------------------
C17_fallbackTitle(topic, outcome) ==
    LET and == <<" ", "a", "n", "d", " ">>
        words == Join(topic.primaryKeywords, and)
    IN  IF outcome = NoApiKey
        THEN <<"E", "x", "p", "l", "o", "r", "i", "n", "g", " ">> \o words
             \o <<" ", "i", "n", " ">> \o topic.category
        ELSE <<"U", "n", "d", "e", "r", "s", "t", "a", "n", "d", "i", "n", "g", " ">>
             \o words
             \o <<" ", "i", "n", " ", "t", "h", "e", " ", "C", "o", "n", "t", "e", "x", "t",
                  " ", "o", "f", " ">>
             \o topic.category

C17_AIFailuresNotFatal ==
    /\ (topicPc = "done" /\ Len(topics) < count) => attempts = 5 /\ ~topicGenerated
    /\ (topicPc = "inner" /\ ~topicGenerated) =>
        /\ keywordChoices(trendingData, usedKeywords) # {}
        /\ categoryChoices(recentCategories) # {}
    /\ (topicPc = "inner" /\ attempts = 0 /\ Len(topics) = 0) =>
        \A titleAnswer \in {NoApiKey, Throws, NotOk,
                             Answer(<<"K", "e", "t", "o", " ", "T", "i", "p", "s">>)},
           slugAnswer \in AISlugOutcomes \cup
                {NoApiKey, Throws, Answer(<<>>), Answer(<<"-", "a">>),
                 Answer(<<"s", "u", "g", "a", "r">>)} :
            LET returned == generateBlogTopic(trendingData, usedKeywords, recentCategories,
                                              titleAnswer, slugAnswer)
                cleaned == IF slugAnswer.kind = "text"
                           THEN cleanAISlug(slugAnswer.text) ELSE <<>>
                fallsBack == \/ slugAnswer.kind # "text"
                             \/ Len(cleaned) < 3
                             \/ Hyphen \notin Range(cleaned)
            IN  /\ returned # {}
                /\ \A topic \in returned :
                    /\ titleAnswer.kind # "text" =>
                        topic.title =
                            cleanTextFormatting(C17_fallbackTitle(topic, titleAnswer))
                    /\ fallsBack => topic.slug = generateSlug(topic.title)

\* a returned topic made without any answer of the AI
C17_Witness ==
    /\ topicPc = "done"
    /\ apiKeySet
    /\ \E i \in 1..Len(topics) :
        \E made \in generateBlogTopic(trendingData, {}, <<>>, NotOk, NotOk) :
            /\ made.title = cleanTextFormatting(C17_fallbackTitle(made, NotOk))
            /\ topics[i].title = made.title
            /\ topics[i].slug = generateSlug(made.title)
            /\ Len(topics[i].slug) > 0

\* ------------------------------------------------------------------------
\* C18: fetchBlogPosts requests the candidate URLs in their fixed order,
\* makes no request after a successful response, and sets the error state
\* only when every candidate has been requested and none has responded
\* successfully, also when an earlier candidate failed by a network error.
\* ------------------------------------------------------------------------
C18_ErrorOnlyAfterAllPaths ==
    /\ \A i \in 1..Len(pageFetched) : pageFetched[i].path = potentialPaths[i]
    /\ \A i \in 1..(Len(pageFetched) - 1) : pageFetched[i].response # Response(200)
    /\ error # Null =>
        /\ Len(pageFetched) = Len(potentialPaths)
        /\ \A i \in 1..Len(pageFetched) : pageFetched[i].response # Response(200)

\* ------------------------------------------------------------------------
\* C19: the HTML returned by generateBlogContent holds no video placeholder:
\* with a video id the placeholder has become the embed markup of that
\* video, without a search query or a video it has been removed, the text
\* of the AI being otherwise unchanged (the text holds no placeholder).
\* ------------------------------------------------------------------------
C19_NoPlaceholderReturned ==
    videoPc = "returned" =>
        LET text == SelectSeq(generatedContent, LAMBDA c : c # Newline)
            embedCode == generateYoutubeEmbedCode(videoId)
        IN  /\ occurrencesOf(generatedContent, videoPlaceholder) = {}
            /\ videoId = Null => text = aiText
            /\ videoId # Null =>
                /\ Cardinality(occurrencesOf(text, embedCode)) = 1
                /\ replace(text, embedCode, <<>>) = aiText

\* a text with a table returned with the embed markup of a video
C19_Witness ==
    /\ videoPc = "returned"
    /\ videoId # Null
    /\ occurrencesOf(aiText, S_table_end) # {}
    /\ occurrencesOf(generatedContent, generateYoutubeEmbedCode(videoId)) # {}

\* ------------------------------------------------------------------------
\* C20: the placeholder is inserted immediately after the first closing
\* table tag; without a table, after the closing p tag nearest to the
\* midpoint of the content; without any closing p tag, at the midpoint.
\* The distance of a closing p tag to the midpoint is taken from its start
\* or from its end, whichever favours the position under test.
\* ------------------------------------------------------------------------
C20_PlaceholderPosition ==
    videoPc = "inserted" =>
        LET middle == Len(aiText) \div 2
            tables == occurrencesOf(aiText, S_table_end)
            paragraphEnds == occurrencesOf(aiText, S_p_end)
            dist(a, b) == IF a < b THEN b - a ELSE a - b
            nearest(offset) ==
                {i + 4 : i \in {j \in paragraphEnds :
                    \A other \in paragraphEnds :
                        dist(j + offset, middle) <= dist(other + offset, middle)}}
            expected == IF tables # {} THEN {Min(tables) + 8}
                        ELSE IF paragraphEnds # {} THEN nearest(0) \cup nearest(4)
                        ELSE {middle}
        IN  \E at \in expected, pad \in {<<Newline>>, <<Newline, Newline>>} :
                generatedContent = insertAt(aiText, at, pad \o videoPlaceholder \o pad)

C27_ExcludedKeywordsAvoided ==
    (topicPc = "inner" /\ ~topicGenerated) =>
        \A sel \in keywordChoices(trendingData, usedKeywords) :
            Range(sel.keywords) \cap usedKeywords = {}

\* ------------------------------------------------------------------------
\* C28: no two topics returned in one batch have the same title, compared
\* in lower case after trimming, and no returned title is the title of a
\* post of the persisted index.
\* ------------------------------------------------------------------------
C28_ReturnedTitlesUnique ==
    topicPc = "done" =>
        LET normalized(i) == trim(toLowerCase(topics[i].title))
        IN  /\ \A i, j \in 1..Len(topics) : i # j => normalized(i) # normalized(j)
            /\ \A i \in 1..Len(topics) : normalized(i) \notin allPublishedTitles

C21_halfPoints(item) ==
    LET videoTitle == toLowerCase(item.title)
        keywords == blogTitleKeywords(searchArgs.blogTitle)
        words == splitWhitespace(toLowerCase(searchArgs.query))
        found(w) == \E at \in 1..Len(videoTitle) :
                        /\ at + Len(w) - 1 <= Len(videoTitle)
                        /\ \A k \in 1..Len(w) : videoTitle[at + k - 1] = w[k]
    IN  (IF Len(keywords) = 0 THEN 2
         ELSE 2 * Cardinality({k \in 1..Len(keywords) : found(keywords[k])}))
        + Cardinality({k \in 1..Len(words) : Len(words[k]) > 3 /\ found(words[k])})

C22_UnselectedUntouched ==
    inlinePc \in {"images", "write", "done"} /\ placeholdersToProcess # <<>> =>
        LET found == Len(extractImagePlaceholders(blogContent))
            n == Len(placeholdersToProcess)
            selected == {placeholdersToProcess[i].position : i \in 1..n}
            generated == {placeholdersToProcess[i].position :
                             i \in {j \in 1..Len(inlineAttempts) :
                                       /\ inlineAttempts[j] # <<>>
                                       /\ inlineAttempts[j][Len(inlineAttempts[j])] = "saved"}}
        IN  /\ 1 <= n /\ n <= Min({3, found})
            /\ Len(updatedContent) = Len(blogContent)
            /\ \A at \in 1..Len(blogContent) :
                IF at \in generated
                THEN updatedContent[at].kind = "image"
                ELSE updatedContent[at] = blogContent[at]

\* ------------------------------------------------------------------------
\* C23: each selected placeholder gets at most 2 attempts; one whose 2
\* attempts failed, in the generation or in the download, is counted as
\* failed and the next selected placeholders are still processed; at the
\* end generatedCount + failedCount is the number of selected placeholders,
\* and the file is rewritten only if generatedCount > 0.
\* ------------------------------------------------------------------------
C23_InlineAttempts ==
    LET ended(tries) == tries # <<>> /\ (tries[Len(tries)] = "saved" \/ Len(tries) = 2)
        saved == {i \in 1..Len(inlineAttempts) :
                     inlineAttempts[i] # <<>>
                     /\ inlineAttempts[i][Len(inlineAttempts[i])] = "saved"}
        failed == {i \in 1..Len(inlineAttempts) :
                      Len(inlineAttempts[i]) = 2 /\ inlineAttempts[i][2] # "saved"}
    IN  /\ \A i \in 1..Len(inlineAttempts) :
            /\ Len(inlineAttempts[i]) <= 2
            /\ \A k \in 1..(Len(inlineAttempts[i]) - 1) : inlineAttempts[i][k] # "saved"
            /\ i < Len(inlineAttempts) => ended(inlineAttempts[i])
        /\ generatedCount = Cardinality(saved)
        /\ failedCount = Cardinality(failed)
        /\ (inlinePc \in {"write", "done"} /\ placeholdersToProcess # <<>>) =>
            /\ Len(inlineAttempts) = Len(placeholdersToProcess)
            /\ generatedCount + failedCount = Len(placeholdersToProcess)
        /\ fileRewritten => inlinePc = "done" /\ generatedCount > 0

\* a placeholder that failed twice, once in the download, followed by a
\* placeholder whose image was saved, and the file rewritten
C23_Witness ==
    /\ inlinePc = "done"
    /\ fileRewritten
    /\ Len(inlineAttempts) = 2
    /\ inlineAttempts[1] = <<"downloadFailed", "generationFailed">>
    /\ inlineAttempts[2] = <<"generationFailed", "saved">>
    /\ failedCount = 1 /\ generatedCount = 1

\* ------------------------------------------------------------------------
\* The post files a rebuild reads
\* ------------------------------------------------------------------------
\* the files that the scan of rebuild-index.js lines 56-103 hands to
\* readBlogJson, each with its path relative to public/blog-data
RECURSIVE C24_scannedFiles(_)
C24_scannedFiles(rootItems) ==
    IF rootItems = <<>> THEN <<>>
    ELSE LET item == Head(rootItems)
             inDirectory == SelectSeq(item.items,
                 LAMBDA f : ~f.isDirectory /\ endsWith(f.name, DotJson))
         IN  (IF ~item.isDirectory /\ endsWith(item.name, DotJson)
                 /\ item.name # N_index_json
              THEN <<[file |-> item, path |-> item.name]>>
              ELSE IF item.isDirectory /\ looksLikeDate(item.name)
              THEN [i \in 1..Len(inDirectory) |->
                       [file |-> inDirectory[i],
                        path |-> item.name \o <<"/">> \o inDirectory[i].name]]
              ELSE <<>>)
             \o C24_scannedFiles(Tail(rootItems))

C24_hasSlugAndTitle(scanned) ==
    scanned.file.parses /\ scanned.file.data.slug # "" /\ scanned.file.data.title # ""

\* ------------------------------------------------------------------------
\* C24: a rebuild of the index skips a post file only when the file cannot
\* be parsed or has no slug or no title: every parseable file with a slug
\* and a title has an entry in the written index, also without a
\* publishDate, and the readBlogJson of rebuild-index.js and the one of the
\* daily script keep the same files.
\* ------------------------------------------------------------------------
C24_SlugAndTitleSuffice ==
    \A k \in 1..Len(runs) :
        LET scanned == C24_scannedFiles(runs[k].rootItems)
            wanted == SelectSeq(scanned, C24_hasSlugAndTitle)
            kept == SelectSeq(scanned, LAMBDA f : readBlogJson(f.file) # Null)
            keptDaily == SelectSeq(scanned, LAMBDA f : dailyReadBlogJson(f.file) # Null)
        IN  /\ Len(runs[k].indexData.posts) = Len(wanted)
            /\ \A i \in 1..Len(wanted) :
                \E j \in 1..Len(runs[k].indexData.posts) :
                    runs[k].indexData.posts[j].slug = wanted[i].file.data.slug
            /\ kept = keptDaily

\* ------------------------------------------------------------------------
\* C25: the filePath of every entry of the written index, resolved against
\* public/blog-data, is the path of the existing file the entry was read
\* from, for the files of the date directories and for the files at the
\* root, those that already carry a filePath field included.
\* ------------------------------------------------------------------------
C25_FilePathNamesTheFile ==
    \A k \in 1..Len(runs) :
        LET scanned == C24_scannedFiles(runs[k].rootItems)
            kept == SelectSeq(scanned, LAMBDA f : readBlogJson(f.file) # Null)
            read == scanPosts(runs[k].rootItems)
            posts == runs[k].indexData.posts
        IN  /\ Len(read) = Len(kept)
            /\ \A i \in 1..Len(read) : read[i].filePath = kept[i].path
            /\ \A j \in 1..Len(posts) :
                \E i \in 1..Len(kept) :
                    /\ posts[j].filePath = kept[i].path
                    /\ posts[j].slug = kept[i].file.data.slug

====
